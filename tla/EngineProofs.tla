---------------------------- MODULE EngineProofs ----------------------------
(***************************************************************************)
(* Proofs about Engine, for every code size, cache size, set of setups and *)
(* number of host calls: the records of loop, step and cache keep their    *)
(* shape, a fault is rolled back, rip advances by the length of the        *)
(* instruction, and, under the conditions on the host that each theorem    *)
(* names, the mode key and the cache are current, what is dispatched is    *)
(* what memory holds, and escapes are honoured.                            *)
(***************************************************************************)
EXTENDS Engine, SequenceTheorems, TLAPS

Exceptions == Faults \cup {"none"}
Keys       == [valid : BOOLEAN, bits : Modes]
Registers  == 0..GprMod-1
Contexts   == [rip : Rips, gpr : Registers, vec : Registers, cs : Modes,
               exc : Exceptions, last : 0..2, key : Keys]
Memories   == [code : [Addrs -> Opcodes], exec : SUBSET Addrs, version : 1..MaxCalls+1]
Windows    == {<<>>} \cup {<<o>> : o \in Opcodes} \cup {<<o, q>> : o, q \in Opcodes}
SlotRecs   == [tag : Rips, version : Nat, mode : Modes, decoded : DecodedInsts]
Engines    == [stop : BOOLEAN, hooks : SUBSET HookTypes, escapes : SUBSET EscapeClasses]
Snapshots  == {<<>>} \cup {<<c>> : c \in Contexts}
Pcs        == Sites \cup {"loop", "lookup", "prefetch", "classify", "step", "dispatch",
                         "execute"}
Runs       == [pc : Pcs, until : 0..NAddrs, count : Nat, executed : Nat, plain : BOOLEAN,
               need_pre : BOOLEAN, need_post : BOOLEAN, address : Rips, bytes : Windows,
               tries : 0..Attempts, decoded : DecodedInsts, rip_pre : Rips, entry : Snapshots, result : Results]
Hosts      == [calls : [Sites -> SUBSET CallKinds], begins : SUBSET (0..NAddrs),
               untils : SUBSET (0..NAddrs), counts : SUBSET Nat, made : 0..MaxCalls]

\* The shape of the whole state.
Shape ==
  /\ cpu \in Contexts /\ mem \in Memories
  /\ icache \in [0..CacheSlots-1 -> SlotRecs]
  /\ eng \in Engines /\ run \in Runs /\ dirty \subseteq Addrs /\ host \in Hosts

-----------------------------------------------------------------------------
(* Operators                                                               *)

LEMMA Numbers ==
  /\ NAddrs \in Nat /\ NAddrs >= 1 /\ Addrs \subseteq Rips /\ 0 \in Rips /\ 1 \in Addrs
  /\ \A a \in Addrs : a \in Nat /\ a # 0 /\ a <= NAddrs /\ a + 1 \in Rips /\ a + 2 \in Rips
  /\ \A r \in Rips : r \in Nat
  /\ \A a \in 0..NAddrs : a \in Rips
  /\ Attempts \in Nat /\ Attempts >= 1 /\ 0 \in 0..Attempts
  BY EngineAssumption DEF Addrs, Rips

\* The slot of an address is a slot of the cache.
LEMMA IndexType ==
  ASSUME NEW r \in Nat
  PROVE  Index(r) \in 0..CacheSlots-1
  BY EngineAssumption DEF Index

\* cpu_raise_exception: a fault is pending afterwards and nothing else changed.
LEMMA RaiseFields ==
  ASSUME NEW c \in Contexts, NEW f \in Faults
  PROVE  /\ Raise(c, f) \in Contexts /\ Raise(c, f).exc \in Faults
         /\ Raise(c, f).rip = c.rip /\ Raise(c, f).gpr = c.gpr /\ Raise(c, f).vec = c.vec
         /\ Raise(c, f).cs = c.cs /\ Raise(c, f).key = c.key /\ Raise(c, f).last = c.last
         /\ Raise(c, f).exc = IF c.exc = "none" THEN f ELSE c.exc
<1>1. CASE c.exc # "none"
  BY <1>1 DEF Raise, Contexts, Exceptions
<1>2. CASE c.exc = "none"
  <2>1. Raise(c, f) = [c EXCEPT !.exc = f]
    BY <1>2 DEF Raise
  <2>2. f \in Exceptions
    BY DEF Exceptions
  <2> QED
    BY <1>2, <2>1, <2>2 DEF Contexts
<1> QED
  BY <1>1, <1>2

\* cpu_inst_cache_mode_key: the key is valid afterwards and holds the bits it held, or
\* those of CS.
LEMMA PrimeFields ==
  ASSUME NEW c \in Contexts
  PROVE  /\ ModeKey(c) \in Modes
         /\ PrimeModeKey(c) \in Contexts
         /\ PrimeModeKey(c).rip = c.rip /\ PrimeModeKey(c).gpr = c.gpr
         /\ PrimeModeKey(c).vec = c.vec /\ PrimeModeKey(c).cs = c.cs
         /\ PrimeModeKey(c).exc = c.exc /\ PrimeModeKey(c).last = c.last
         /\ PrimeModeKey(c).key = [valid |-> TRUE, bits |-> ModeKey(c)]
<1>1. ModeKey(c) \in Modes
  BY DEF ModeKey, Contexts, Keys
<1> DEFINE k == [valid |-> TRUE, bits |-> ModeKey(c)]
<1>2. k \in Keys
  BY <1>1 DEF Keys
<1>3. PrimeModeKey(c) = [c EXCEPT !.key = k]
  BY DEF PrimeModeKey
<1> HIDE DEF k
<1> SUFFICES /\ PrimeModeKey(c) \in Contexts
             /\ PrimeModeKey(c).rip = c.rip /\ PrimeModeKey(c).gpr = c.gpr
             /\ PrimeModeKey(c).vec = c.vec /\ PrimeModeKey(c).cs = c.cs
             /\ PrimeModeKey(c).exc = c.exc /\ PrimeModeKey(c).last = c.last
             /\ PrimeModeKey(c).key = k
  BY <1>1 DEF k
<1> QED
  BY <1>2, <1>3 DEF Contexts

\* Dropping the cached mode key.
LEMMA DropKey ==
  ASSUME NEW c \in Contexts
  PROVE  [c.key EXCEPT !.valid = FALSE] \in Keys /\ [c.key EXCEPT !.valid = FALSE].valid = FALSE
  BY DEF Contexts, Keys

\* A window is empty or holds the code at its address.
LEMMA WindowType ==
  ASSUME mem \in Memories, NEW a
  PROVE  /\ Window(a) \in Windows
         /\ Window(a) # <<>> => a \in Addrs /\ a \in mem.exec /\ Window(a)[1] = mem.code[a]
         /\ Window(a) = <<>> => Len(Window(a)) < 2
<1>1. mem.exec \subseteq Addrs /\ \A b \in mem.exec : mem.code[b] \in Opcodes
  BY DEF Memories
<1>2. CASE a \notin mem.exec
  BY <1>2 DEF Window, Windows
<1>3. CASE a \in mem.exec /\ a + 1 \notin mem.exec
  <2>1. Window(a) = <<mem.code[a]>>
    BY <1>3 DEF Window
  <2> QED
    BY <1>1, <1>3, <2>1 DEF Windows
<1>4. CASE a \in mem.exec /\ a + 1 \in mem.exec
  <2>1. Window(a) = <<mem.code[a], mem.code[a + 1]>>
    BY <1>4 DEF Window
  <2> QED
    BY <1>1, <1>4, <2>1 DEF Windows
<1> QED
  BY <1>2, <1>3, <1>4

\* The instructions that decoding can give.
DecodeResults == {Decode(b, m) : b \in Windows \ {<<>>}, m \in Modes}

FlagSet == {"NO_FAULT", "BRANCH", "TOUCHES_VECTOR", "PARTIAL_PROGRESS", "UD", "BP",
            "KNOWN_NOT_ESCAPE"}

LEMMA FlagsType ==
  ASSUME NEW op
  PROVE  Flags(op) \in SUBSET FlagSet
  BY DEF Flags, FlagSet

LEMMA WindowsNonempty ==
  ASSUME NEW b \in Windows, b # <<>>
  PROVE  b[1] \in Opcodes /\ Len(b) \in {1, 2}
  BY DEF Windows

\* cpu_decode_instruction: the fields of what it gives.
LEMMA DecodeFields ==
  ASSUME NEW b \in Windows, b # <<>>, NEW m \in Modes
  PROVE  /\ Decode(b, m) \in DecodedInsts /\ Decode(b, m) \in DecodeResults
         /\ Decode(b, m).bytes = b /\ b[1] \in Opcodes
         /\ Decode(b, m).op = (IF Size(b[1]) > Len(b) THEN "short" ELSE Selected(b[1], m))
         /\ Decode(b, m).flags = Flags(Decode(b, m).op)
<1> DEFINE op == IF Size(b[1]) > Len(b) THEN "short" ELSE Selected(b[1], m)
           len == IF Len(b) < 2 THEN 0 ELSE Length(op)
<1>1. Decode(b, m) = [bytes |-> b, op |-> op, flags |-> Flags(op), length |-> len]
  BY DEF Decode
<1>2. b[1] \in Opcodes
  BY WindowsNonempty
<1>3. op \in Opcodes \cup {"none", "inc40", "short"}
  BY <1>2 DEF Selected
<1>4. Flags(op) \in SUBSET FlagSet
  BY FlagsType
<1>5. len \in 0..2
  BY DEF Length, Size
<1> HIDE DEF op, len
<1>6. Decode(b, m) \in DecodedInsts
  BY <1>1, <1>3, <1>4, <1>5 DEF DecodedInsts, Windows, FlagSet
<1>7. Decode(b, m) \in DecodeResults
  BY DEF DecodeResults
<1> QED
  BY <1>1, <1>2, <1>6, <1>7 DEF op

Ops == Opcodes \cup {"none", "inc40", "short"}

\* What a handler may leave of the context it started with.
Follows(d, c, op) ==
  /\ d \in Contexts
  /\ d.rip = c.rip \/ (d.rip = 1 /\ op \in {"jmp", "far"} /\ d.exc = "none")
  /\ d.key.valid => d.key = c.key /\ d.cs = c.cs
  /\ d.exc = c.exc \/ (c.exc = "none" /\ d.exc \in {"gp", "pf_data"})
  /\ d.exc = "none" /\ op # "nop1e" => d.last = Size(op)
  /\ op \in {"alu", "lea", "x40", "inc40", "rdssp", "nop1e"} => d.exc = c.exc
  /\ op # "sse" => d.vec = c.vec
  /\ op = "short" => d.exc # "none"

LEMMA SizedFollows ==
  ASSUME NEW c \in Contexts, NEW op
  PROVE  /\ [c EXCEPT !.last = Size(op)] \in Contexts
         /\ [c EXCEPT !.last = Size(op)].last = Size(op)
         /\ [c EXCEPT !.last = Size(op)].rip = c.rip /\ [c EXCEPT !.last = Size(op)].key = c.key
         /\ [c EXCEPT !.last = Size(op)].cs = c.cs /\ [c EXCEPT !.last = Size(op)].exc = c.exc
         /\ [c EXCEPT !.last = Size(op)].gpr = c.gpr /\ [c EXCEPT !.last = Size(op)].vec = c.vec
<1>1. Size(op) \in 0..2
  BY DEF Size
<1> QED
  BY <1>1 DEF Contexts

LEMMA IncType ==
  ASSUME NEW n \in Registers
  PROVE  Inc(n) \in Registers
  BY DEF Registers, Inc, GprMod

LEMMA FarFollows ==
  ASSUME NEW c \in Contexts
  PROVE  /\ FarTransfer(c) \in Contexts /\ FarTransfer(c).rip = 1 /\ FarTransfer(c).vec = c.vec
         /\ FarTransfer(c).key.valid = FALSE /\ FarTransfer(c).exc = c.exc
         /\ FarTransfer(c).last = c.last
<1> DEFINE k == [c.key EXCEPT !.valid = FALSE]
           m == OtherMode(c.cs)
<1>1. k \in Keys /\ k.valid = FALSE
  BY DropKey
<1>2. m \in Modes /\ 1 \in Rips
  BY Numbers DEF OtherMode, Modes
<1>3. FarTransfer(c) = [c EXCEPT !.cs = m, !.key = k, !.rip = 1]
  BY DEF FarTransfer, Contexts
<1> HIDE DEF k, m
<1> QED
  BY <1>1, <1>2, <1>3 DEF Contexts

\* The handlers: the fault or the completion each leaves.
LEMMA OutcomesFollow ==
  ASSUME NEW c \in Contexts, NEW op \in Ops, NEW d \in Outcomes(op, c)
  PROVE  Follows(d, c, op)
<1> DEFINE sized  == [c EXCEPT !.last = Size(op)]
           scalar == [sized EXCEPT !.gpr = Inc(@)]
           vector == [sized EXCEPT !.vec = Inc(@)]
<1>1. /\ sized \in Contexts /\ sized.last = Size(op) /\ sized.rip = c.rip /\ sized.key = c.key
      /\ sized.cs = c.cs /\ sized.exc = c.exc /\ sized.vec = c.vec
  BY SizedFollows
<1> HIDE DEF sized
<1>2. /\ scalar \in Contexts /\ scalar.last = Size(op) /\ scalar.rip = c.rip /\ scalar.key = c.key
      /\ scalar.cs = c.cs /\ scalar.exc = c.exc /\ scalar.vec = c.vec
  <2>1. Inc(sized.gpr) \in Registers
    BY <1>1, IncType DEF Contexts
  <2> QED
    BY <1>1, <2>1 DEF Contexts
<1>3. /\ vector \in Contexts /\ vector.last = Size(op) /\ vector.rip = c.rip /\ vector.key = c.key
      /\ vector.cs = c.cs /\ vector.exc = c.exc
  <2>1. Inc(sized.vec) \in Registers
    BY <1>1, IncType DEF Contexts
  <2> QED
    BY <1>1, <2>1 DEF Contexts
<1> DEFINE jumped == [sized EXCEPT !.rip = 1]
<1>4. /\ jumped \in Contexts /\ jumped.last = Size(op) /\ jumped.rip = 1 /\ jumped.key = c.key
      /\ jumped.cs = c.cs /\ jumped.exc = c.exc /\ jumped.vec = c.vec
  BY <1>1, Numbers DEF Contexts
<1> HIDE DEF scalar, vector, jumped
<1>5. \/ op \in {"alu", "lea", "inc40"} /\ d = scalar
      \/ op \in {"x40", "rdssp"} /\ d = sized
      \/ op = "nop1e" /\ d = c
      \/ op = "short" /\ d = Raise(c, "gp")
      \/ /\ op \in {"mem", "xadd", "rep"}
         /\ \/ c.exc = "none" /\ d = scalar
            \/ d = Raise(sized, "pf_data") \/ d = Raise(scalar, "pf_data")
      \/ op = "sse" /\ ((c.exc = "none" /\ d = vector) \/ d = Raise(vector, "pf_data"))
      \/ op = "jmp" /\ ((c.exc = "none" /\ d = jumped) \/ d = Raise(sized, "gp"))
      \/ op = "far" /\ ((c.exc = "none" /\ d = FarTransfer(sized)) \/ d = Raise(sized, "gp"))
      \/ op = "store" /\ ((c.exc = "none" /\ d = sized) \/ d = Raise(sized, "pf_data"))
  BY DEF Outcomes, Ops, Opcodes, sized, scalar, vector, jumped
<1>6. ASSUME NEW e \in Contexts, e.rip = c.rip, e.key = c.key, e.cs = c.cs, e.exc = c.exc,
             op # "sse" => e.vec = c.vec, NEW f \in {"gp", "pf_data"}, d = Raise(e, f),
             op \notin {"alu", "lea", "x40", "inc40", "rdssp", "nop1e"}
      PROVE  Follows(d, c, op)
  <2>1. f \in Faults
    BY DEF Faults
  <2>2. /\ d \in Contexts /\ d.exc \in Faults /\ d.rip = e.rip /\ d.cs = e.cs /\ d.key = e.key
        /\ d.vec = e.vec
        /\ d.exc = IF e.exc = "none" THEN f ELSE e.exc
    BY <1>6, <2>1, RaiseFields
  <2>3. d.exc # "none"
    BY <2>2 DEF Faults
  <2> QED
    BY <1>6, <2>2, <2>3 DEF Follows
<1>7. ASSUME NEW e \in Contexts, e.last = Size(op), e.rip = c.rip, e.key = c.key, e.cs = c.cs,
             e.exc = c.exc, op # "sse" => e.vec = c.vec, op # "short", d = e
      PROVE  Follows(d, c, op)
  BY <1>7 DEF Follows
<1>8. CASE op = "short" \/ op = "nop1e"
  BY <1>5, <1>6, <1>8 DEF Follows
<1>9. CASE op \in {"alu", "lea", "inc40", "x40", "rdssp"}
  BY <1>1, <1>2, <1>5, <1>7, <1>9
<1>10. CASE op \in {"mem", "xadd", "rep", "sse", "store"}
  BY <1>1, <1>2, <1>3, <1>5, <1>6, <1>7, <1>10
<1>11. CASE op = "jmp"
  BY <1>1, <1>4, <1>5, <1>6, <1>11 DEF Follows
<1>12. CASE op = "far"
  <2>1. /\ FarTransfer(sized) \in Contexts /\ FarTransfer(sized).rip = 1
        /\ FarTransfer(sized).key.valid = FALSE /\ FarTransfer(sized).exc = c.exc
        /\ FarTransfer(sized).last = Size(op) /\ FarTransfer(sized).vec = c.vec
    BY <1>1, FarFollows
  <2> QED
    BY <1>1, <1>5, <1>6, <1>12, <2>1 DEF Follows
<1> QED
  BY <1>5, <1>8, <1>9, <1>10, <1>11, <1>12

\* The exception path of cpu_step_finish: what it keeps of the handler's context and
\* what it takes from the snapshot.
LEMMA RestoredFields ==
  ASSUME NEW c \in Contexts, NEW snap \in Contexts, NEW flags
  PROVE  /\ Restored(c, snap, flags) \in Contexts
         /\ Restored(c, snap, flags).exc = c.exc
         /\ Restored(c, snap, flags).key.valid =>
              Restored(c, snap, flags).key = c.key /\ Restored(c, snap, flags).cs = c.cs
         /\ "NO_FAULT" \in flags => Restored(c, snap, flags) = c
         /\ flags \cap {"NO_FAULT", "PARTIAL_PROGRESS"} = {} =>
              /\ Restored(c, snap, flags).rip = snap.rip
              /\ Restored(c, snap, flags).gpr = snap.gpr
              /\ Restored(c, snap, flags).cs = snap.cs
              /\ Restored(c, snap, flags).vec =
                   IF "TOUCHES_VECTOR" \in flags THEN snap.vec ELSE c.vec
<1>1. CASE "NO_FAULT" \in flags
  BY <1>1 DEF Restored
<1>2. CASE "NO_FAULT" \notin flags /\ "PARTIAL_PROGRESS" \in flags
  <2>1. Restored(c, snap, flags) = [c EXCEPT !.last = snap.last]
    BY <1>2 DEF Restored
  <2>2. snap.last \in 0..2
    BY DEF Contexts
  <2> QED
    BY <1>2, <2>1, <2>2 DEF Contexts
<1>3. CASE "NO_FAULT" \notin flags /\ "PARTIAL_PROGRESS" \notin flags
  <2> DEFINE k == [snap.key EXCEPT !.valid = FALSE]
             v == IF "TOUCHES_VECTOR" \in flags THEN snap.vec ELSE c.vec
  <2>1. Restored(c, snap, flags) = [snap EXCEPT !.exc = c.exc, !.key = k, !.vec = v]
    BY <1>3 DEF Restored, Contexts
  <2>2. k \in Keys /\ k.valid = FALSE
    BY DropKey
  <2>3. v \in Registers /\ c.exc \in Exceptions
    BY DEF Contexts
  <2> HIDE DEF k
  <2> SUFFICES /\ Restored(c, snap, flags) \in Contexts
               /\ Restored(c, snap, flags).exc = c.exc
               /\ Restored(c, snap, flags).key = k /\ Restored(c, snap, flags).vec = v
               /\ Restored(c, snap, flags).rip = snap.rip
               /\ Restored(c, snap, flags).gpr = snap.gpr
               /\ Restored(c, snap, flags).cs = snap.cs
    BY <1>3, <2>2
  <2> HIDE DEF v
  <2> QED
    BY <2>1, <2>2, <2>3 DEF Contexts
<1> QED
  BY <1>1, <1>2, <1>3

\* cpueaxh_context_in after an escape callback: the mode key is dropped.
LEMMA EscapeContextFields ==
  ASSUME NEW copy \in Contexts, copy.rip \in Addrs, NEW rip \in {copy.rip, 1}, NEW cs \in Modes
  PROVE  /\ EscapeContext(copy, rip, cs) \in Contexts
         /\ EscapeContext(copy, rip, cs).key.valid = FALSE
         /\ EscapeContext(copy, rip, cs).exc = copy.exc
<1> DEFINE k == [copy.key EXCEPT !.valid = FALSE]
           r == IF rip = copy.rip THEN copy.rip + 1 ELSE rip
           g == (copy.gpr + 1) % GprMod
<1>1. EscapeContext(copy, rip, cs) =
        [copy EXCEPT !.gpr = g, !.cs = cs, !.key = k, !.last = 1, !.rip = r]
  <2>1. copy.gpr \in Registers /\ copy.key \in Keys
    BY DEF Contexts
  <2> QED
    BY <2>1 DEF EscapeContext
<1>2. k \in Keys /\ k.valid = FALSE
  BY DropKey
<1>3. r \in Rips
  BY Numbers
<1>4. g \in Registers
  BY IncType DEF Inc, Contexts
<1>5. 1 \in 0..2
  OBVIOUS
<1> HIDE DEF k, r, g
<1> DEFINE e == [copy EXCEPT !.gpr = g, !.cs = cs, !.key = k, !.last = 1, !.rip = r]
<1>6. e \in Contexts
  BY <1>2, <1>3, <1>4, <1>5 DEF Contexts
<1>7. e.key = k /\ e.exc = copy.exc
  BY DEF Contexts
<1> HIDE DEF e
<1> QED
  BY <1>1, <1>2, <1>6, <1>7 DEF e

LEMMA SnapshotFields ==
  /\ <<>> \in Snapshots
  /\ \A c \in Contexts : <<c>> \in Snapshots /\ <<c>> # <<>> /\ <<c>>[1] = c
  /\ \A e \in Snapshots : e # <<>> => e[1] \in Contexts
  BY DEF Snapshots

LEMMA NoDecodedType == NoDecoded \in DecodedInsts /\ <<>> \in Windows
  BY DEF NoDecoded, DecodedInsts, Windows

\* The run that ends, with its result.
LEMMA IdleType ==
  ASSUME NEW r \in Results
  PROVE  /\ Idle(r) \in Runs /\ Idle(r).pc = "idle" /\ Idle(r).entry = <<>>
         /\ Idle(r).result = r /\ Idle(r).plain = FALSE /\ Idle(r).bytes = <<>>
<1>1. "idle" \in Pcs /\ 0 \in 0..NAddrs /\ 0 \in Rips /\ 0 \in 0..Attempts
  BY Numbers DEF Pcs, Sites
<1> QED
  BY <1>1, SnapshotFields, NoDecodedType DEF Idle, Runs

\* Where a completed step leaves the run.
LEMMA AfterStepType ==
  ASSUME run \in Runs
  PROVE  /\ AfterStep(run) \in Runs /\ AfterStep(run).pc \in {"post", "loop"}
         /\ AfterStep(run).entry = <<>> /\ AfterStep(run).bytes = <<>>
         /\ AfterStep(run).plain = run.plain
         /\ run.plain => AfterStep(run).pc = "loop"
<1> DEFINE p == IF ~run.plain /\ run.need_post /\ HasHook("POST") THEN "post" ELSE "loop"
           n == IF run.count = 0 THEN 0 ELSE run.executed + 1
<1>1. AfterStep(run) =
        [run EXCEPT !.pc = p, !.executed = n, !.address = 0, !.bytes = <<>>,
                    !.decoded = NoDecoded, !.rip_pre = 0, !.entry = <<>>]
  BY DEF AfterStep
<1>2. p \in Pcs /\ p \in {"post", "loop"} /\ (run.plain => p = "loop")
  BY DEF Pcs, Sites
<1>3. n \in Nat /\ 0 \in Rips
  BY Numbers DEF Runs
<1>4. <<>> \in Snapshots /\ <<>> \in Windows /\ NoDecoded \in DecodedInsts
  BY SnapshotFields, NoDecodedType
<1> HIDE DEF p, n
<1>5. AfterStep(run) \in Runs
  BY <1>1, <1>2, <1>3, <1>4 DEF Runs
<1>6. /\ AfterStep(run).pc = p /\ AfterStep(run).entry = <<>> /\ AfterStep(run).bytes = <<>>
      /\ AfterStep(run).plain = run.plain
  BY <1>1 DEF Runs
<1> QED
  BY <1>2, <1>5, <1>6

-----------------------------------------------------------------------------
(* The base invariant                                                      *)

Stepping == run.pc \in {"dispatch", "fetch", "execute", "write"}

Prefetching == run.pc \in {"prefetch", "invalid", "classify", "step"}

\* From the head of the loop to the step.  A run without hooks and escapes fetches nothing
\* ahead and has no hook to call.  Otherwise rip is the address that was read, or one a
\* hook wrote; the units copied are at code addresses, a hook is called before the second
\* one, no more often than there are attempts, and both are there or a fault is pending.
FetchOK ==
  /\ run.plain => /\ run.bytes = <<>> /\ eng.hooks = {}
                  /\ run.pc \notin Sites \cup {"lookup", "prefetch", "classify"}
  /\ run.pc \in {"pre", "lookup"} \/ Prefetching =>
       run.plain \/ cpu.rip = run.address \/ cpu.rip \in Addrs
  /\ Prefetching /\ run.bytes # <<>> => run.address \in Addrs
  /\ run.pc = "prefetch" => run.tries < Attempts
  /\ run.pc = "invalid" => Len(run.bytes) < 2
  /\ run.pc \in {"classify", "step"} /\ ~run.plain /\ cpu.exc = "none" => Len(run.bytes) = 2

\* From the dispatch to the end of the step: a decoded instruction at a code address,
\* and a copy of the context exactly while a handler or an escape callback runs.
StepOK ==
  /\ Stepping => run.rip_pre \in Addrs /\ run.decoded \in DecodeResults
  /\ (run.entry # <<>>) = (run.pc \in {"execute", "write", "escape"})
  /\ run.pc = "escape" => run.entry[1].rip \in Addrs
  /\ run.pc = "execute" => run.entry = <<cpu>>
  /\ run.pc = "write" => run.entry[1].vec = cpu.vec /\ run.decoded.op = "store"

\* A slot that was ever filled.
Filled(e) == e.version # 0

\* A filled slot holds a decoded instruction of an earlier or the current version.
SlotsOK ==
  \A s \in DOMAIN icache :
    Filled(icache[s]) => /\ icache[s].tag \in Addrs /\ icache[s].version <= mem.version
                         /\ icache[s].decoded \in DecodeResults

VersionOK == mem.version <= host.made + 1

Base == Shape /\ FetchOK /\ StepOK /\ SlotsOK /\ VersionOK

LEMMA EngineFrame ==
  ASSUME Base, cpu' \in Contexts, run' \in Runs, eng' \in Engines,
         UNCHANGED <<mem, icache, dirty, host>>, FetchOK', StepOK'
  PROVE  Base'
<1>1. Shape'
  BY DEF Base, Shape
<1>2. SlotsOK' /\ VersionOK'
  BY DEF Base, SlotsOK, VersionOK, Filled
<1> QED
  BY <1>1, <1>2 DEF Base

\* The end of a run keeps the base invariant whatever the context is left as.
LEMMA EndsBase ==
  ASSUME Base, cpu' \in Contexts, NEW r \in Results, run' = Idle(r), eng' \in Engines,
         UNCHANGED <<mem, icache, dirty, host>>
  PROVE  Base'
<1>1. /\ run' \in Runs /\ run'.pc = "idle" /\ run'.entry = <<>> /\ run'.plain = FALSE
  BY IdleType
<1>2. FetchOK' /\ StepOK'
  BY <1>1 DEF FetchOK, Prefetching, Sites, StepOK, Stepping
<1> QED
  BY <1>1, <1>2, EngineFrame

\* The completion of a step, too.
LEMMA CompletesBase ==
  ASSUME Base, cpu' \in Contexts, run' = AfterStep(run),
         UNCHANGED <<mem, icache, eng, dirty, host>>
  PROVE  Base'
<1>0. FetchOK /\ eng \in Engines
  BY DEF Base, Shape
<1>1. /\ run' \in Runs /\ run'.pc \in {"post", "loop"} /\ run'.entry = <<>>
      /\ run'.bytes = <<>> /\ run'.plain = run.plain /\ (run'.plain => run'.pc = "loop")
  BY AfterStepType DEF Base, Shape
<1>2. FetchOK' /\ StepOK'
  BY <1>0, <1>1 DEF FetchOK, Prefetching, Sites, StepOK, Stepping
<1> QED
  BY <1>0, <1>1, <1>2, EngineFrame

LEMMA ResultsType ==
  /\ {"ok", "none", "callback_error"} \subseteq Results /\ Faults \subseteq Results
  /\ \A c \in Contexts : c.exc # "none" => c.exc \in Faults /\ c.exc \in Results
  BY DEF Results, Contexts, Exceptions

LEMMA InitBase == Init => Base
<1> SUFFICES ASSUME NEW setup \in Setups, InitWith(setup) PROVE Base
  BY DEF Init
<1>1. cpu \in Contexts
  BY Numbers DEF InitWith, Contexts, Registers, GprMod, Modes, Exceptions, Keys
<1>2. mem \in Memories /\ mem.version = 1 /\ host.made = 0 /\ host \in Hosts
  BY EngineAssumption DEF InitWith, Memories, Hosts
<1>3. EmptySlot \in SlotRecs /\ EmptySlot.version = 0
  BY NoDecodedType, Numbers DEF EmptySlot, SlotRecs, Modes
<1>4. /\ icache \in [0..CacheSlots-1 -> SlotRecs]
      /\ \A s \in DOMAIN icache : icache[s] = EmptySlot
  BY <1>3 DEF InitWith
<1>5. eng \in Engines
  BY EngineAssumption DEF InitWith, Engines
<1>6. run \in Runs /\ run.pc = "idle" /\ run.entry = <<>> /\ run.plain = FALSE
  BY IdleType, ResultsType DEF InitWith
<1>7. Shape
  BY <1>1, <1>2, <1>4, <1>5, <1>6 DEF Shape, InitWith
<1>8. FetchOK /\ StepOK
  BY <1>6 DEF FetchOK, Prefetching, Sites, StepOK, Stepping
<1>9. SlotsOK
  BY <1>3, <1>4 DEF SlotsOK, Filled
<1> QED
  BY <1>2, <1>7, <1>8, <1>9 DEF Base, VersionOK

-----------------------------------------------------------------------------
(* The actions of the loop                                                 *)

LEMMA EmuStartEffect ==
  ASSUME Base, NEW begin \in host.begins, NEW until \in host.untils, NEW count \in host.counts,
         EmuStart(begin, until, count)
  PROVE  /\ Base' /\ run.pc = "idle" /\ run'.pc = "loop"
         /\ cpu'.key = cpu.key /\ cpu'.cs = cpu.cs /\ cpu'.exc = "none"
         /\ eng'.hooks = eng.hooks /\ eng'.escapes = eng.escapes
<1> DEFINE r == IF begin # 0 THEN begin ELSE cpu.rip
           p == eng.hooks = {} /\ eng.escapes = {}
           i == Idle("none")
<1>0. cpu \in Contexts /\ eng \in Engines /\ host \in Hosts
  BY DEF Base, Shape
<1>1. begin \in 0..NAddrs /\ until \in 0..NAddrs /\ count \in Nat
  BY <1>0 DEF Hosts
<1>2. r \in Rips
  BY <1>0, <1>1, Numbers DEF Contexts
<1>3. cpu' = [cpu EXCEPT !.rip = r, !.exc = "none"]
  BY <1>0 DEF EmuStart, Contexts
<1> HIDE DEF r
<1>4. cpu' \in Contexts /\ cpu'.key = cpu.key /\ cpu'.cs = cpu.cs /\ cpu'.exc = "none"
  BY <1>0, <1>2, <1>3 DEF Contexts, Exceptions
<1>5. eng' \in Engines /\ eng'.hooks = eng.hooks /\ eng'.escapes = eng.escapes
  BY <1>0 DEF EmuStart, Engines
<1>6. i \in Runs /\ i.entry = <<>> /\ i.bytes = <<>>
  BY IdleType, ResultsType
<1>7. run' = [i EXCEPT !.pc = "loop", !.until = until, !.count = count, !.plain = p,
                       !.need_pre = HasHook("PRE"), !.need_post = HasHook("POST")]
  BY DEF EmuStart
<1>8. /\ p \in BOOLEAN /\ HasHook("PRE") \in BOOLEAN /\ HasHook("POST") \in BOOLEAN
      /\ "loop" \in Pcs /\ (p => eng.hooks = {})
  BY DEF HasHook, Pcs
<1> HIDE DEF p, i
<1>9. /\ run' \in Runs /\ run'.pc = "loop" /\ run'.entry = <<>> /\ run'.bytes = <<>>
      /\ run'.plain = p
  BY <1>1, <1>6, <1>7, <1>8 DEF Runs
<1>10. FetchOK' /\ StepOK'
  BY <1>5, <1>8, <1>9 DEF FetchOK, Prefetching, Sites, StepOK, Stepping
<1>11. UNCHANGED <<mem, icache, dirty, host>> /\ run.pc = "idle"
  BY DEF EmuStart
<1> QED
  BY <1>4, <1>5, <1>9, <1>10, <1>11, EngineFrame

\* Changing the program counter of the run alone.
LEMMA PcFields ==
  ASSUME run \in Runs, NEW pc \in Pcs, run' = [run EXCEPT !.pc = pc]
  PROVE  /\ run' \in Runs /\ run'.pc = pc /\ run'.plain = run.plain
         /\ run'.address = run.address /\ run'.bytes = run.bytes /\ run'.decoded = run.decoded
         /\ run'.rip_pre = run.rip_pre /\ run'.entry = run.entry
  BY DEF Runs

LEMMA LoopHeadEffect ==
  ASSUME Base, LoopHead
  PROVE  /\ Base' /\ run.pc = "loop" /\ UNCHANGED <<cpu, mem, icache, eng, dirty, host>>
         /\ \/ run' = Idle("ok")
            \/ run'.plain = run.plain /\ run.plain /\ run'.pc = "step" /\ run'.bytes = <<>>
            \/ /\ run'.plain = run.plain /\ ~run.plain /\ run'.pc \in {"pre", "lookup"}
               /\ run'.address = cpu.rip /\ run'.bytes = <<>>
<1>0. /\ cpu \in Contexts /\ run \in Runs /\ eng \in Engines /\ StepOK /\ FetchOK
      /\ cpu.rip \in Rips
  BY DEF Base, Shape, Contexts
<1>1. run.pc = "loop" /\ UNCHANGED <<cpu, mem, icache, eng, dirty, host>>
  BY DEF LoopHead
<1>2. CASE LoopExit
  BY <1>0, <1>1, <1>2, EndsBase, ResultsType DEF LoopHead
<1>3. CASE ~LoopExit
  <2> DEFINE q == IF run.plain THEN "step"
                  ELSE IF run.need_pre /\ HasHook("PRE") THEN "pre" ELSE "lookup"
             a == IF run.plain THEN 0 ELSE cpu.rip
  <2>1. run' = [run EXCEPT !.pc = q, !.address = a, !.bytes = <<>>]
    BY <1>3 DEF LoopHead
  <2>2. /\ q \in Pcs /\ a \in Rips /\ run.plain \in BOOLEAN
        /\ run.plain => q = "step"
        /\ ~run.plain => q \in {"pre", "lookup"} /\ a = cpu.rip
    BY <1>0, Numbers DEF Pcs, Sites, Runs
  <2> HIDE DEF q, a
  <2>3. /\ run' \in Runs /\ run'.pc = q /\ run'.address = a /\ run'.bytes = <<>>
        /\ run'.plain = run.plain /\ run'.entry = run.entry
    BY <1>0, <2>1, <2>2, NoDecodedType DEF Runs
  <2>4. FetchOK' /\ StepOK'
    BY <1>0, <1>1, <2>2, <2>3 DEF FetchOK, Prefetching, Sites, StepOK, Stepping
  <2>5. Base'
    BY <1>0, <1>1, <2>3, <2>4, EngineFrame
  <2> QED
    BY <1>1, <2>2, <2>3, <2>5
<1> QED
  BY <1>2, <1>3

LEMMA PreHooksReturnEffect ==
  ASSUME Base, PreHooksReturn
  PROVE  /\ Base' /\ run.pc = "pre" /\ run'.pc = "lookup"
         /\ run'.plain = run.plain /\ run'.address = run.address /\ run'.bytes = run.bytes
         /\ UNCHANGED <<cpu, mem, icache, eng, dirty, host>>
<1>0. cpu \in Contexts /\ run \in Runs /\ eng \in Engines /\ StepOK /\ FetchOK /\ "lookup" \in Pcs
  BY DEF Base, Shape, Pcs
<1>1. run.pc = "pre" /\ run' = [run EXCEPT !.pc = "lookup"]
  BY DEF PreHooksReturn
<1>2. /\ run' \in Runs /\ run'.pc = "lookup" /\ run'.plain = run.plain
      /\ run'.address = run.address /\ run'.bytes = run.bytes /\ run'.entry = run.entry
  BY <1>0, <1>1, PcFields
<1>3. UNCHANGED <<cpu, mem, icache, eng, dirty, host>>
  BY DEF PreHooksReturn
<1>4. FetchOK' /\ StepOK'
  BY <1>0, <1>1, <1>2, <1>3 DEF FetchOK, Prefetching, Sites, StepOK, Stepping
<1> QED
  BY <1>0, <1>1, <1>2, <1>3, <1>4, EngineFrame

LEMMA PostHooksReturnEffect ==
  ASSUME Base, PostHooksReturn
  PROVE  /\ Base' /\ run.pc = "post" /\ run'.pc = "loop"
         /\ UNCHANGED <<cpu, mem, icache, eng, dirty, host>>
<1>0. cpu \in Contexts /\ run \in Runs /\ eng \in Engines /\ StepOK /\ FetchOK /\ "loop" \in Pcs
  BY DEF Base, Shape, Pcs
<1>1. run.pc = "post" /\ run' = [run EXCEPT !.pc = "loop"]
  BY DEF PostHooksReturn
<1>2. /\ run' \in Runs /\ run'.pc = "loop" /\ run'.plain = run.plain
      /\ run'.bytes = run.bytes /\ run'.entry = run.entry
  BY <1>0, <1>1, PcFields
<1>3. UNCHANGED <<cpu, mem, icache, eng, dirty, host>>
  BY DEF PostHooksReturn
<1>4. FetchOK' /\ StepOK'
  BY <1>0, <1>1, <1>2, <1>3 DEF FetchOK, Prefetching, Sites, StepOK, Stepping
<1> QED
  BY <1>0, <1>1, <1>2, <1>3, <1>4, EngineFrame

\* fetch_instruction_bytes: what it gives and which exception it leaves.
LEMMA FetchFields ==
  ASSUME mem \in Memories, NEW c \in Contexts, NEW a
  PROVE  /\ Fetched(c, a) \in Windows
         /\ Fetched(c, a) # <<>> => Fetched(c, a) = Window(a) /\ c.exc = "none" /\ a \in Addrs
         /\ AfterFetch(c, a) \in Contexts /\ AfterFetch(c, a).rip = c.rip
         /\ AfterFetch(c, a).cs = c.cs /\ AfterFetch(c, a).key = c.key
         /\ AfterFetch(c, a).vec = c.vec
         /\ AfterFetch(c, a).exc = c.exc \/ AfterFetch(c, a).exc = "pf_exec"
         /\ c.exc # "none" => AfterFetch(c, a).exc = c.exc
         /\ Fetched(c, a) = <<>> => AfterFetch(c, a).exc # "none"
<1>1. Fetched(c, a) \in Windows
  BY WindowType, NoDecodedType DEF Fetched
<1>2. Fetched(c, a) # <<>> => Fetched(c, a) = Window(a) /\ c.exc = "none" /\ a \in Addrs
  BY WindowType DEF Fetched
<1>3. "pf_exec" \in Faults /\ "none" \notin Faults
  BY DEF Faults
<1>4. /\ Raise(c, "pf_exec") \in Contexts /\ Raise(c, "pf_exec").exc \in Faults
      /\ Raise(c, "pf_exec").rip = c.rip /\ Raise(c, "pf_exec").vec = c.vec
      /\ Raise(c, "pf_exec").cs = c.cs /\ Raise(c, "pf_exec").key = c.key
      /\ Raise(c, "pf_exec").exc = IF c.exc = "none" THEN "pf_exec" ELSE c.exc
  BY <1>3, RaiseFields
<1>5. AfterFetch(c, a) = Raise(c, "pf_exec") \/ AfterFetch(c, a) = c
  BY DEF AfterFetch
<1>6. Fetched(c, a) = <<>> => AfterFetch(c, a).exc # "none"
  <2> SUFFICES ASSUME Fetched(c, a) = <<>>, c.exc = "none" PROVE AfterFetch(c, a).exc # "none"
    BY <1>4, <1>5
  <2>1. Len(Window(a)) < 2
    BY WindowType DEF Fetched
  <2> QED
    BY <1>3, <1>4, <2>1 DEF AfterFetch
<1> QED
  BY <1>1, <1>2, <1>4, <1>5, <1>6

\* A slot that hits was filled for the address.
LEMMA HitFields ==
  ASSUME Base, NEW r \in Rips, NEW m, Hit(r, m)
  PROVE  /\ r \in Addrs /\ Index(r) \in DOMAIN icache /\ icache[Index(r)].tag = r
         /\ icache[Index(r)].version = mem.version /\ icache[Index(r)].mode = m
         /\ icache[Index(r)].decoded \in DecodeResults /\ icache[Index(r)].decoded \in DecodedInsts
<1>1. Index(r) \in 0..CacheSlots-1 /\ icache \in [0..CacheSlots-1 -> SlotRecs] /\ mem \in Memories
  BY Numbers, IndexType DEF Base, Shape
<1>2. /\ icache[Index(r)].tag = r /\ icache[Index(r)].version = mem.version
      /\ icache[Index(r)].mode = m
  BY DEF Hit
<1>3. mem.version # 0
  BY <1>1 DEF Memories
<1>4. icache[Index(r)].decoded \in DecodedInsts
  BY <1>1 DEF SlotRecs
<1> QED
  BY <1>1, <1>2, <1>3, <1>4 DEF Base, SlotsOK, Filled

LEMMA DispatchFields ==
  ASSUME run \in Runs, NEW c \in Contexts, NEW d \in DecodedInsts, Dispatch(c, d)
  PROVE  /\ run' \in Runs /\ run'.pc = "dispatch" /\ run'.decoded = d /\ run'.rip_pre = c.rip
         /\ run'.plain = run.plain /\ run'.address = run.address /\ run'.bytes = run.bytes
         /\ run'.entry = run.entry
<1>1. run' = [run EXCEPT !.pc = "dispatch", !.decoded = d, !.rip_pre = c.rip]
  BY DEF Dispatch
<1>2. "dispatch" \in Pcs /\ c.rip \in Rips
  BY DEF Pcs, Contexts
<1> QED
  BY <1>1, <1>2 DEF Runs

\* A dispatch of a decoded instruction at a code address keeps the base invariant of the run.
LEMMA DispatchOK ==
  ASSUME run \in Runs, StepOK, FetchOK, run.pc \in {"lookup", "step"},
         NEW c \in Contexts, NEW d \in DecodedInsts, d \in DecodeResults, c.rip \in Addrs,
         Dispatch(c, d), UNCHANGED eng
  PROVE  run' \in Runs /\ FetchOK' /\ StepOK'
<1>1. /\ run' \in Runs /\ run'.pc = "dispatch" /\ run'.decoded = d /\ run'.rip_pre = c.rip
      /\ run'.plain = run.plain /\ run'.bytes = run.bytes /\ run'.entry = run.entry
  BY DispatchFields
<1>2. FetchOK'
  BY <1>1 DEF FetchOK, Prefetching, Sites
<1>3. StepOK'
  BY <1>1 DEF StepOK, Stepping
<1> QED
  BY <1>1, <1>2, <1>3

\* LookupAddress: stop, the fast path, or the fetch.
LookupFast ==
  /\ cpu.exc = "none" /\ cpu' = PrimeModeKey(cpu) /\ Hit(run.address, ModeKey(cpu))
  /\ "KNOWN_NOT_ESCAPE" \in icache[Index(run.address)].decoded.flags
  /\ Dispatch(PrimeModeKey(cpu), icache[Index(run.address)].decoded)
LookupPrefetch ==
  /\ cpu' = PrimeModeKey(cpu)
  /\ run'.pc = "prefetch" /\ run'.bytes = <<>>
  /\ run'.plain = run.plain /\ run'.address = run.address

LEMMA LookupEffect ==
  ASSUME Base, LookupAddress
  PROVE  /\ Base' /\ run.pc = "lookup" /\ ~run.plain /\ UNCHANGED <<mem, icache, eng, dirty, host>>
         /\ \/ run' = Idle("ok") /\ cpu' = cpu
            \/ cpu.exc # "none" /\ run' = Idle(cpu.exc) /\ cpu' = PrimeModeKey(cpu)
            \/ LookupFast
            \/ LookupPrefetch
<1> DEFINE c == PrimeModeKey(cpu)
           slot == icache[Index(run.address)]
           fast == Hit(run.address, ModeKey(cpu)) /\ "KNOWN_NOT_ESCAPE" \in slot.decoded.flags
<1>0. cpu \in Contexts /\ run \in Runs /\ eng \in Engines /\ mem \in Memories /\ StepOK /\ FetchOK
  BY DEF Base, Shape
<1>1. run.pc = "lookup" /\ UNCHANGED <<mem, icache, eng, dirty, host>> /\ ~run.plain
  BY <1>0 DEF LookupAddress, FetchOK
<1>2. c \in Contexts /\ c.rip = cpu.rip /\ c.exc = cpu.exc
  BY <1>0, PrimeFields
<1>3. \/ run' = Idle("ok") /\ cpu' = cpu
      \/ fast /\ cpu' = c /\ c.exc # "none" /\ run' = Idle(c.exc)
      \/ fast /\ cpu' = c /\ c.exc = "none" /\ Dispatch(c, slot.decoded)
      \/ cpu' = c /\ run' = [run EXCEPT !.pc = "prefetch", !.bytes = <<>>, !.tries = 0]
  BY DEF LookupAddress, Fail
<1>4. CASE run' = Idle("ok") /\ cpu' = cpu
  BY <1>0, <1>1, <1>4, EndsBase, ResultsType
<1>5. CASE cpu' = c /\ c.exc # "none" /\ run' = Idle(c.exc)
  <2>1. Base'
    BY <1>0, <1>1, <1>2, <1>5, EndsBase, ResultsType
  <2> QED
    BY <1>1, <1>2, <1>5, <2>1
<1>6. CASE fast /\ cpu' = c /\ c.exc = "none" /\ Dispatch(c, slot.decoded)
  <2>1. run.address \in Rips
    BY <1>0 DEF Runs
  <2>2. run.address \in Addrs /\ slot.decoded \in DecodeResults /\ slot.decoded \in DecodedInsts
    BY <1>6, <2>1, HitFields
  <2>3. c.rip \in Addrs
    BY <1>0, <1>1, <1>2, <2>2 DEF FetchOK
  <2>4. run' \in Runs /\ FetchOK' /\ StepOK'
    BY <1>0, <1>1, <1>2, <1>6, <2>2, <2>3, DispatchOK
  <2>5. Base'
    BY <1>0, <1>1, <1>2, <1>6, <2>4, EngineFrame
  <2> QED
    BY <1>1, <1>2, <1>6, <2>5 DEF LookupFast
<1>7. CASE cpu' = c /\ run' = [run EXCEPT !.pc = "prefetch", !.bytes = <<>>, !.tries = 0]
  <2>1. "prefetch" \in Pcs /\ <<>> \in Windows /\ 0 \in 0..Attempts /\ 0 < Attempts
    BY NoDecodedType, Numbers DEF Pcs
  <2>2. /\ run' \in Runs /\ run'.pc = "prefetch" /\ run'.bytes = <<>> /\ run'.tries = 0
        /\ run'.plain = run.plain /\ run'.address = run.address /\ run'.entry = run.entry
    BY <1>0, <1>7, <2>1 DEF Runs
  <2>3. FetchOK' /\ StepOK'
    BY <1>0, <1>1, <1>2, <1>7, <2>1, <2>2 DEF FetchOK, Prefetching, Sites, StepOK, Stepping
  <2>4. Base'
    BY <1>0, <1>1, <1>2, <1>7, <2>2, <2>3, EngineFrame
  <2> QED
    BY <1>1, <1>7, <2>2, <2>4 DEF LookupPrefetch
<1> QED
  BY <1>3, <1>4, <1>5, <1>6, <1>7

LEMMA AppendSecond ==
  ASSUME NEW S, NEW o \in S, NEW u \in S
  PROVE  Append(<<o>>, u) = <<o, u>>
<1> DEFINE x == Append(<<o>>, u)
           y == <<o, u>>
<1>1. <<o>> \in Seq(S) /\ Len(<<o>>) = 1
  OBVIOUS
<1>2. x \in Seq(S) /\ Len(x) = 2 /\ x[1] = o /\ x[2] = u
  BY <1>1, AppendProperties
<1>3. y \in Seq(S) /\ Len(y) = 2 /\ y[1] = o /\ y[2] = u
  OBVIOUS
<1> HIDE DEF x, y
<1>4. \A i \in 1..2 : x[i] = y[i]
  BY <1>2, <1>3
<1>5. x = y
  BY <1>2, <1>3, <1>4, SeqEqual
<1> QED
  BY <1>5 DEF x, y

\* A unit more in the window.
LEMMA AppendWindow ==
  ASSUME NEW b \in Windows, Len(b) < 2, NEW u \in Opcodes
  PROVE  /\ Append(b, u) \in Windows /\ Append(b, u) # <<>>
         /\ b = <<>> => Len(b) = 0 /\ Len(Append(b, u)) = 1 /\ Append(b, u)[1] = u
         /\ b # <<>> => /\ Len(b) = 1 /\ Len(Append(b, u)) = 2
                        /\ Append(b, u)[1] = b[1] /\ Append(b, u)[2] = u
<1>1. CASE b = <<>>
  <2>1. Append(b, u) = <<u>>
    BY <1>1
  <2> QED
    BY <1>1, <2>1 DEF Windows
<1>2. CASE b # <<>>
  <2>1. PICK o \in Opcodes : b = <<o>>
    BY <1>2 DEF Windows
  <2>2. Append(b, u) = <<o, u>>
    BY <2>1, AppendSecond
  <2>3. Append(b, u) \in Windows /\ Append(b, u) # <<>> /\ Len(Append(b, u)) = 2
    BY <2>2 DEF Windows
  <2>4. Len(b) = 1 /\ Append(b, u)[1] = b[1] /\ Append(b, u)[2] = u
    BY <2>1, <2>2
  <2> QED
    BY <1>2, <2>3, <2>4
<1> QED
  BY <1>1, <1>2

\* A step of the prefetch: a unit is copied, or the bytes stay as they are.
UnitTaken ==
  /\ run.pc = "prefetch" /\ Len(run.bytes) < 2 /\ NextUnit \in mem.exec /\ run'.pc = "prefetch"
  /\ run'.bytes = Append(run.bytes, mem.code[NextUnit])
PrefetchStep ==
  /\ run.pc \in {"prefetch", "invalid"} /\ ~run.plain
  /\ run'.pc \in {"prefetch", "invalid", "classify"}
  /\ run'.plain = run.plain /\ run'.address = run.address
  /\ UNCHANGED <<mem, icache, eng, dirty, host>>
  /\ cpu'.rip = cpu.rip /\ cpu'.cs = cpu.cs /\ cpu'.key = cpu.key
  /\ cpu'.exc \in {cpu.exc, "pf_exec"}
  /\ run'.bytes = run.bytes \/ UnitTaken

\* The end of the prefetch, with both units or with a fault pending.
LEMMA PrefetchedEffect ==
  ASSUME Base, run.pc \in {"prefetch", "invalid"}, ~run.plain,
         UNCHANGED <<mem, icache, eng, dirty, host>>,
         NEW c \in Contexts, c.rip = cpu.rip, Prefetched(c),
         c.exc = "none" => Len(run.bytes) = 2
  PROVE  Base' /\ run'.pc = "classify" /\ run'.bytes = run.bytes
         /\ run'.plain = run.plain /\ run'.address = run.address
<1>0. run \in Runs /\ eng \in Engines /\ StepOK /\ FetchOK
  BY DEF Base, Shape
<1>1. "classify" \in Pcs /\ 0 \in 0..Attempts
  BY Numbers DEF Pcs
<1>2. cpu' = c /\ run' = [run EXCEPT !.pc = "classify", !.tries = 0]
  BY DEF Prefetched
<1>3. /\ run' \in Runs /\ run'.pc = "classify" /\ run'.bytes = run.bytes
      /\ run'.plain = run.plain /\ run'.address = run.address /\ run'.entry = run.entry
  BY <1>0, <1>1, <1>2 DEF Runs
<1>4. FetchOK' /\ StepOK'
  BY <1>0, <1>2, <1>3 DEF FetchOK, Prefetching, Sites, StepOK, Stepping
<1>5. Base'
  BY <1>0, <1>2, <1>3, <1>4, EngineFrame
<1> QED
  BY <1>3, <1>5

LEMMA RaiseFetch ==
  ASSUME NEW c \in Contexts
  PROVE  /\ Raise(c, "pf_exec") \in Contexts /\ Raise(c, "pf_exec").exc # "none"
         /\ Raise(c, "pf_exec").exc \in {c.exc, "pf_exec"}
         /\ Raise(c, "pf_exec").rip = c.rip /\ Raise(c, "pf_exec").cs = c.cs
         /\ Raise(c, "pf_exec").key = c.key
<1>1. "pf_exec" \in Faults /\ "none" \notin Faults
  BY DEF Faults
<1> QED
  BY <1>1, RaiseFields

LEMMA PrefetchEffect ==
  ASSUME Base, PrefetchUnit \/ PrefetchEnds \/ PrefetchInvalid \/ InvalidHooksReturn
  PROVE  Base' /\ PrefetchStep
<1>0. cpu \in Contexts /\ run \in Runs /\ eng \in Engines /\ mem \in Memories /\ StepOK /\ FetchOK
  BY DEF Base, Shape
<1>1. UNCHANGED <<mem, icache, eng, dirty, host>> /\ run.pc \in {"prefetch", "invalid"}
  BY DEF PrefetchUnit, PrefetchEnds, PrefetchInvalid, InvalidHooksReturn
<1>2. ~run.plain
  BY <1>0, <1>1 DEF FetchOK, Sites
<1>3. ASSUME Prefetched(Raise(cpu, "pf_exec")) PROVE Base' /\ PrefetchStep
  <2>1. cpu' = Raise(cpu, "pf_exec")
    BY <1>3 DEF Prefetched
  <2>2. /\ cpu' \in Contexts /\ cpu'.exc # "none" /\ cpu'.exc \in {cpu.exc, "pf_exec"}
        /\ cpu'.rip = cpu.rip /\ cpu'.cs = cpu.cs /\ cpu'.key = cpu.key
    BY <1>0, <2>1, RaiseFetch
  <2>3. Prefetched(cpu')
    BY <1>3, <2>1
  <2>4. /\ Base' /\ run'.pc = "classify" /\ run'.bytes = run.bytes
        /\ run'.plain = run.plain /\ run'.address = run.address
    BY <1>1, <1>2, <1>3, <2>1, <2>2, PrefetchedEffect
  <2> QED
    BY <1>1, <1>2, <2>2, <2>4 DEF PrefetchStep
<1>4. CASE PrefetchUnit
  <2> DEFINE u == mem.code[NextUnit]
             b == Append(run.bytes, u)
  <2>1. /\ run.pc = "prefetch" /\ Len(run.bytes) < 2 /\ NextUnit \in mem.exec /\ cpu' = cpu
        /\ run' = [run EXCEPT !.bytes = b, !.tries = 0]
    BY <1>4 DEF PrefetchUnit
  <2>2. NextUnit \in Addrs /\ u \in Opcodes /\ run.bytes \in Windows
    BY <1>0, <2>1 DEF Memories, Runs
  <2>3. b \in Windows /\ b # <<>> /\ (run.bytes = <<>> => Len(run.bytes) = 0)
    BY <2>1, <2>2, AppendWindow
  <2>4. 0 \in 0..Attempts /\ 0 < Attempts
    BY Numbers
  <2> HIDE DEF u, b
  <2>5. /\ run' \in Runs /\ run'.pc = "prefetch" /\ run'.bytes = b /\ run'.tries = 0
        /\ run'.plain = run.plain /\ run'.address = run.address /\ run'.entry = run.entry
    BY <1>0, <2>1, <2>3, <2>4 DEF Runs
  <2>6. run.address \in Addrs
    <3>1. CASE run.bytes = <<>>
      <4>1. run.address \in Nat /\ Len(run.bytes) = 0
        BY <1>0, <2>3, <3>1, Numbers DEF Runs
      <4>2. NextUnit = run.address
        BY <4>1 DEF NextUnit
      <4> QED
        BY <2>2, <4>2
    <3>2. CASE run.bytes # <<>>
      BY <1>0, <2>1, <3>2 DEF FetchOK, Prefetching
    <3> QED
      BY <3>1, <3>2
  <2>7. FetchOK' /\ StepOK'
    BY <1>0, <1>1, <1>2, <2>1, <2>4, <2>5, <2>6 DEF FetchOK, Prefetching, Sites, StepOK, Stepping
  <2>8. Base'
    BY <1>0, <1>1, <2>1, <2>5, <2>7, EngineFrame
  <2>9. UnitTaken
    BY <2>1, <2>5 DEF UnitTaken, b, u
  <2> QED
    BY <1>1, <1>2, <2>1, <2>5, <2>8, <2>9 DEF PrefetchStep
<1>5. CASE PrefetchEnds
  <2>1. /\ Prefetched(cpu) /\ cpu' = cpu /\ run.pc = "prefetch"
        /\ cpu.exc = "none" => Len(run.bytes) = 2
    BY <1>5 DEF PrefetchEnds, Refused, Prefetched
  <2>2. /\ Base' /\ run'.pc = "classify" /\ run'.bytes = run.bytes
        /\ run'.plain = run.plain /\ run'.address = run.address
    BY <1>0, <1>1, <1>2, <2>1, PrefetchedEffect
  <2> QED
    BY <1>1, <1>2, <2>1, <2>2 DEF PrefetchStep
<1>6. CASE PrefetchInvalid
  <2>1. CASE ~HasHook("FETCH_INVALID")
    BY <1>3, <1>6, <2>1 DEF PrefetchInvalid
  <2>2. CASE HasHook("FETCH_INVALID")
    <3> DEFINE n == run.tries + 1
    <3>1. /\ run.pc = "prefetch" /\ Len(run.bytes) < 2 /\ cpu' = cpu
          /\ run' = [run EXCEPT !.pc = "invalid", !.tries = n]
      BY <1>6, <2>2 DEF PrefetchInvalid
    <3>2. run.tries \in 0..Attempts /\ run.tries < Attempts
      BY <1>0, <3>1 DEF FetchOK, Runs
    <3>3. n \in 0..Attempts /\ "invalid" \in Pcs
      BY <3>2, Numbers DEF Pcs, Sites
    <3> HIDE DEF n
    <3>4. /\ run' \in Runs /\ run'.pc = "invalid" /\ run'.bytes = run.bytes
          /\ run'.plain = run.plain /\ run'.address = run.address /\ run'.entry = run.entry
      BY <1>0, <3>1, <3>3 DEF Runs
    <3>5. FetchOK' /\ StepOK'
      BY <1>0, <1>1, <1>2, <3>1, <3>4 DEF FetchOK, Prefetching, Sites, StepOK, Stepping
    <3>6. Base'
      BY <1>0, <1>1, <3>1, <3>4, <3>5, EngineFrame
    <3> QED
      BY <1>1, <1>2, <3>1, <3>4, <3>6 DEF PrefetchStep
  <2> QED
    BY <2>1, <2>2
<1>7. CASE InvalidHooksReturn
  <2>1. CASE Prefetched(Raise(cpu, "pf_exec"))
    BY <1>3, <2>1
  <2>2. CASE run.tries < Attempts /\ run' = [run EXCEPT !.pc = "prefetch"] /\ cpu' = cpu
    <3>1. "prefetch" \in Pcs /\ run.pc = "invalid"
      BY <1>7 DEF Pcs, InvalidHooksReturn
    <3>2. /\ run' \in Runs /\ run'.pc = "prefetch" /\ run'.bytes = run.bytes
          /\ run'.plain = run.plain /\ run'.address = run.address /\ run'.entry = run.entry
      BY <1>0, <2>2, <3>1, PcFields
    <3>3. run'.tries = run.tries
      BY <1>0, <2>2 DEF Runs
    <3>4. FetchOK' /\ StepOK'
      BY <1>0, <1>1, <1>2, <2>2, <3>1, <3>2, <3>3 DEF FetchOK, Prefetching, Sites, StepOK, Stepping
    <3>5. Base'
      BY <1>0, <1>1, <2>2, <3>2, <3>4, EngineFrame
    <3> QED
      BY <1>1, <1>2, <2>2, <3>2, <3>5 DEF PrefetchStep
  <2> QED
    BY <1>7, <2>1, <2>2 DEF InvalidHooksReturn
<1> QED
  BY <1>4, <1>5, <1>6, <1>7

\* ClassifyEscape: the callback, the step, or the fault of an escape nobody registered.
ToEscape == /\ cpu' = cpu /\ run'.pc = "escape" /\ run'.entry = <<cpu>>
            /\ EscapeClass(run.bytes) \in eng.escapes
ToStep == /\ cpu' = cpu /\ run'.pc = "step" /\ run'.bytes = run.bytes
          /\ run'.address = run.address /\ run'.plain = run.plain
          /\ EscapeClass(run.bytes) \notin eng.escapes
ToFault == /\ EscapeClass(run.bytes) \in {"cpuid", "int3"}
           /\ cpu' = Raise(cpu, IF EscapeClass(run.bytes) = "int3" THEN "bp" ELSE "ud")
           /\ run' = Idle(cpu'.exc)

LEMMA ClassifyEffect ==
  ASSUME Base, ClassifyEscape
  PROVE  /\ Base' /\ run.pc = "classify" /\ ~run.plain /\ UNCHANGED <<mem, icache, eng, dirty, host>>
         /\ ToEscape \/ ToStep \/ ToFault
<1> DEFINE class == EscapeClass(run.bytes)
           fault == IF class = "int3" THEN "bp" ELSE "ud"
<1>0. cpu \in Contexts /\ run \in Runs /\ eng \in Engines /\ StepOK /\ FetchOK
  BY DEF Base, Shape
<1>1. run.pc = "classify" /\ UNCHANGED <<mem, icache, eng, dirty, host>> /\ ~run.plain
  BY <1>0 DEF ClassifyEscape, FetchOK
<1>2. \/ class \in eng.escapes /\ run' = [run EXCEPT !.pc = "escape", !.entry = <<cpu>>] /\ cpu' = cpu
      \/ class \notin eng.escapes /\ run' = [run EXCEPT !.pc = "step"] /\ cpu' = cpu
      \/ /\ class \notin eng.escapes /\ class # "none" /\ class # "rdssp"
         /\ cpu' = Raise(cpu, fault) /\ run' = Idle(Raise(cpu, fault).exc)
  BY DEF ClassifyEscape, Optional, Fail
<1>3. class \in EscapeClasses \/ class = "none"
  BY DEF EscapeClass
<1>4. CASE class \in eng.escapes /\ run' = [run EXCEPT !.pc = "escape", !.entry = <<cpu>>] /\ cpu' = cpu
  <2>1. class \in EscapeClasses
    BY <1>0, <1>4 DEF Engines
  <2>2. class # "none"
    BY <2>1 DEF EscapeClasses
  <2>3. run.bytes # <<>>
    BY <2>2 DEF EscapeClass
  <2>4. cpu.rip \in Addrs
    BY <1>0, <1>1, <2>3 DEF FetchOK, Prefetching
  <2>5. "escape" \in Pcs /\ <<cpu>> \in Snapshots
    BY <1>0, SnapshotFields DEF Pcs, Sites
  <2>6. /\ run' \in Runs /\ run'.pc = "escape" /\ run'.entry = <<cpu>> /\ run'.plain = run.plain
        /\ run'.bytes = run.bytes
    BY <1>0, <1>4, <2>5 DEF Runs
  <2>7. <<cpu>> # <<>> /\ <<cpu>>[1] = cpu
    OBVIOUS
  <2>8. FetchOK' /\ StepOK'
    BY <1>1, <2>4, <2>6, <2>7 DEF FetchOK, Prefetching, Sites, StepOK, Stepping
  <2>9. Base'
    BY <1>0, <1>1, <1>4, <2>6, <2>8, EngineFrame
  <2> QED
    BY <1>1, <1>4, <2>6, <2>9 DEF ToEscape
<1>5. CASE class \notin eng.escapes /\ run' = [run EXCEPT !.pc = "step"] /\ cpu' = cpu
  <2>1. "step" \in Pcs
    BY DEF Pcs
  <2>2. /\ run' \in Runs /\ run'.pc = "step" /\ run'.entry = run.entry /\ run'.plain = run.plain
        /\ run'.bytes = run.bytes /\ run'.address = run.address
    BY <1>0, <1>5, <2>1, PcFields
  <2>3. FetchOK' /\ StepOK'
    BY <1>0, <1>1, <1>5, <2>2 DEF FetchOK, Prefetching, Sites, StepOK, Stepping
  <2>4. Base'
    BY <1>0, <1>1, <1>5, <2>2, <2>3, EngineFrame
  <2> QED
    BY <1>1, <1>5, <2>2, <2>4 DEF ToStep
<1>6. CASE /\ class # "none" /\ class # "rdssp"
           /\ cpu' = Raise(cpu, fault) /\ run' = Idle(Raise(cpu, fault).exc)
  <2>1. class \in {"cpuid", "int3"} /\ fault \in Faults
    BY <1>3, <1>6 DEF EscapeClasses, Faults
  <2>2. cpu' \in Contexts /\ cpu'.exc \in Results
    BY <1>0, <1>6, <2>1, RaiseFields, ResultsType
  <2>3. Base'
    BY <1>0, <1>1, <1>6, <2>2, EndsBase
  <2> QED
    BY <1>1, <1>6, <2>1, <2>3 DEF ToFault
<1> QED
  BY <1>2, <1>4, <1>5, <1>6

LEMMA EscapeReturnEffect ==
  ASSUME Base, EscapeReturn
  PROVE  /\ Base' /\ run.pc = "escape" /\ UNCHANGED <<mem, icache, eng, dirty, host>>
         /\ \/ cpu' = cpu /\ run' = Idle("callback_error")
            \/ /\ cpu'.key.valid = FALSE /\ cpu'.exc = run.entry[1].exc
               /\ \/ cpu'.exc # "none" /\ run' = Idle(cpu'.exc)
                  \/ cpu'.exc = "none" /\ run' = AfterStep(run)
<1>0. cpu \in Contexts /\ run \in Runs /\ eng \in Engines /\ StepOK
  BY DEF Base, Shape
<1>1. run.pc = "escape" /\ UNCHANGED <<mem, icache, eng, dirty, host>>
  BY DEF EscapeReturn
<1>2. run.entry[1] \in Contexts /\ run.entry[1].rip \in Addrs
  BY <1>0, <1>1, SnapshotFields DEF StepOK, Runs
<1>3. CASE cpu' = cpu /\ run' = Idle("callback_error")
  BY <1>0, <1>1, <1>3, EndsBase, ResultsType
<1>4. CASE \E rip \in {run.entry[1].rip, 1}, cs \in Modes :
             LET c == EscapeContext(run.entry[1], rip, cs)
             IN  cpu' = c /\ IF c.exc # "none" THEN Fail(c) ELSE run' = AfterStep(run)
  <2>1. PICK rip \in {run.entry[1].rip, 1}, cs \in Modes :
          /\ cpu' = EscapeContext(run.entry[1], rip, cs)
          /\ IF cpu'.exc # "none" THEN run' = Idle(cpu'.exc) ELSE run' = AfterStep(run)
    BY <1>4 DEF Fail
  <2>2. cpu' \in Contexts /\ cpu'.key.valid = FALSE /\ cpu'.exc = run.entry[1].exc
    BY <1>2, <2>1, EscapeContextFields
  <2>3. CASE cpu'.exc # "none"
    BY <1>0, <1>1, <2>1, <2>2, <2>3, EndsBase, ResultsType
  <2>4. CASE cpu'.exc = "none"
    BY <1>0, <1>1, <2>1, <2>2, <2>4, CompletesBase
  <2> QED
    BY <2>3, <2>4
<1> QED
  BY <1>3, <1>4 DEF EscapeReturn

-----------------------------------------------------------------------------
(* The actions of the step                                                 *)

\* The bytes that are decoded on a miss, and the context after they were fetched.
StepBytes == IF run.bytes # <<>> THEN run.bytes ELSE Fetched(PrimeModeKey(cpu), cpu.rip)
StepContext == IF run.bytes # <<>> THEN PrimeModeKey(cpu)
               ELSE AfterFetch(PrimeModeKey(cpu), cpu.rip)
StepHit ==
  /\ cpu.exc = "none" /\ Hit(cpu.rip, ModeKey(cpu)) /\ cpu' = PrimeModeKey(cpu)
  /\ Dispatch(PrimeModeKey(cpu), icache[Index(cpu.rip)].decoded) /\ UNCHANGED icache
StepFill ==
  /\ cpu.exc = "none" /\ StepBytes # <<>> /\ cpu' = StepContext
  /\ Commit(StepContext, Decode(StepBytes, StepContext.cs))
  /\ Dispatch(StepContext, Decode(StepBytes, StepContext.cs))

LEMMA StepContextFields ==
  ASSUME Base
  PROVE  /\ StepBytes \in Windows /\ StepContext \in Contexts
         /\ StepContext.rip = cpu.rip /\ StepContext.cs = cpu.cs
         /\ StepContext.key = [valid |-> TRUE, bits |-> ModeKey(cpu)]
         /\ StepContext.exc \in {cpu.exc, "pf_exec"} /\ (cpu.exc # "none" => StepContext.exc = cpu.exc)
         /\ StepBytes = <<>> => StepContext.exc # "none"
         /\ run.bytes = <<>> /\ StepBytes # <<>> => StepBytes = Window(cpu.rip) /\ cpu.rip \in Addrs
<1>0. cpu \in Contexts /\ run \in Runs /\ mem \in Memories
  BY DEF Base, Shape
<1> DEFINE c == PrimeModeKey(cpu)
<1>1. /\ c \in Contexts /\ c.rip = cpu.rip /\ c.exc = cpu.exc /\ c.cs = cpu.cs
      /\ c.key = [valid |-> TRUE, bits |-> ModeKey(cpu)]
  BY <1>0, PrimeFields
<1>2. run.bytes \in Windows
  BY <1>0 DEF Runs
<1> HIDE DEF c
<1>3. CASE run.bytes # <<>>
  <2>1. StepBytes = run.bytes /\ StepContext = c
    BY <1>3 DEF StepBytes, StepContext, c
  <2> QED
    BY <1>1, <1>2, <1>3, <2>1
<1>4. CASE run.bytes = <<>>
  <2>1. StepBytes = Fetched(c, cpu.rip) /\ StepContext = AfterFetch(c, cpu.rip)
    BY <1>4 DEF StepBytes, StepContext, c
  <2> QED
    BY <1>0, <1>1, <1>4, <2>1, FetchFields
<1> QED
  BY <1>3, <1>4

LEMMA StepEffect ==
  ASSUME Base, StepWithPrefetch
  PROVE  /\ Base' /\ run.pc = "step" /\ UNCHANGED <<mem, eng, dirty, host>>
         /\ \/ cpu.exc # "none" /\ run' = Idle(cpu.exc) /\ UNCHANGED <<cpu, icache>>
            \/ StepHit
            \/ /\ StepContext.exc # "none" /\ run' = Idle(StepContext.exc) /\ cpu' = StepContext
               /\ UNCHANGED icache
            \/ StepFill
<1>0. cpu \in Contexts /\ run \in Runs /\ eng \in Engines /\ mem \in Memories /\ StepOK /\ FetchOK
      /\ cpu.rip \in Rips
  BY DEF Base, Shape, Contexts
<1>1. run.pc = "step" /\ UNCHANGED <<mem, eng, dirty, host>>
  BY DEF StepWithPrefetch
<1>2. \/ cpu.exc # "none" /\ run' = Idle(cpu.exc) /\ UNCHANGED <<cpu, icache>>
      \/ StepHit
      \/ StepBytes = <<>> /\ cpu' = StepContext /\ run' = Idle(StepContext.exc) /\ UNCHANGED icache
      \/ StepFill
  BY DEF StepWithPrefetch, StepHit, StepFill, StepBytes, StepContext, Fail
<1>3. CASE cpu.exc # "none" /\ run' = Idle(cpu.exc) /\ UNCHANGED <<cpu, icache>>
  BY <1>0, <1>1, <1>3, EndsBase, ResultsType
<1>4. CASE StepHit
  <2> DEFINE d == icache[Index(cpu.rip)].decoded
             c == PrimeModeKey(cpu)
  <2>1. cpu.rip \in Addrs /\ d \in DecodeResults /\ d \in DecodedInsts
    BY <1>0, <1>4, HitFields DEF StepHit
  <2>2. c \in Contexts /\ c.rip = cpu.rip
    BY <1>0, PrimeFields
  <2>3. run' \in Runs /\ FetchOK' /\ StepOK'
    BY <1>0, <1>1, <1>4, <2>1, <2>2, DispatchOK DEF StepHit
  <2>4. Base'
    BY <1>0, <1>1, <1>4, <2>2, <2>3, EngineFrame DEF StepHit
  <2> QED
    BY <1>1, <1>4, <2>4
<1>5. CASE /\ StepBytes = <<>> /\ cpu' = StepContext /\ run' = Idle(StepContext.exc)
           /\ UNCHANGED icache
  <2>1. StepContext \in Contexts /\ StepContext.exc # "none"
    BY <1>5, StepContextFields
  <2>2. Base'
    BY <1>0, <1>1, <1>5, <2>1, EndsBase, ResultsType
  <2> QED
    BY <1>1, <1>5, <2>1, <2>2
<1>6. CASE StepFill
  <2> DEFINE c == StepContext
             d == Decode(StepBytes, c.cs)
             e == [tag |-> c.rip, version |-> mem.version, mode |-> ModeKey(c), decoded |-> d]
  <2>1. c \in Contexts /\ c.rip = cpu.rip /\ StepBytes \in Windows /\ StepBytes # <<>>
    BY <1>6, StepContextFields DEF StepFill
  <2>2. d \in DecodedInsts /\ d \in DecodeResults
    BY <2>1, DecodeFields DEF Contexts
  <2>3. c.rip \in Addrs
    BY <1>0, <1>1, <2>1, StepContextFields DEF FetchOK, Prefetching
  <2>4. run' \in Runs /\ FetchOK' /\ StepOK'
    BY <1>0, <1>1, <1>6, <2>1, <2>2, <2>3, DispatchOK DEF StepFill
  <2>5. mem.version \in Nat /\ ModeKey(c) \in Modes /\ c.rip \in Rips
    <3>1. mem.version \in Nat
      BY <1>0 DEF Memories
    <3>2. ModeKey(c) \in Modes
      BY <2>1, PrimeFields
    <3> QED
      BY <1>0, <2>1, <3>1, <3>2
  <2>6. e \in SlotRecs
    BY <2>2, <2>5 DEF SlotRecs
  <2>7. icache' = [icache EXCEPT ![Index(c.rip)] = e]
    BY <1>6 DEF StepFill, Commit
  <2>8. icache \in [0..CacheSlots-1 -> SlotRecs]
    BY DEF Base, Shape
  <2>9. e.tag = c.rip /\ e.version = mem.version /\ e.decoded = d
    OBVIOUS
  <2> HIDE DEF d, e
  <2>10. icache' \in [0..CacheSlots-1 -> SlotRecs]
    BY <2>6, <2>7, <2>8
  <2>11. Shape'
    BY <1>1, <1>6, <2>1, <2>4, <2>10 DEF Base, Shape, StepFill
  <2>12. \A s \in DOMAIN icache' : icache'[s] = e \/ (s \in DOMAIN icache /\ icache'[s] = icache[s])
    BY <2>7
  <2>13. SlotsOK'
    BY <1>1, <2>2, <2>3, <2>5, <2>9, <2>12 DEF Base, SlotsOK, Filled
  <2>14. Base'
    BY <1>1, <2>4, <2>11, <2>13 DEF Base, VersionOK
  <2> QED
    BY <1>1, <1>6, <2>14
<1> QED
  BY <1>2, <1>3, <1>4, <1>5, <1>6

\* NotifyFetchedBytes: to the MEM_FETCH hooks, or to the handler, with #UD raised when
\* the entry has no length.
LEMMA NotifyEffect ==
  ASSUME Base, NotifyFetchedBytes
  PROVE  /\ Base' /\ run.pc = "dispatch" /\ UNCHANGED <<mem, icache, eng, dirty, host>>
         /\ run'.decoded = run.decoded /\ run'.rip_pre = run.rip_pre
         /\ cpu'.key = cpu.key /\ cpu'.cs = cpu.cs
         /\ \/ cpu' = cpu /\ run'.pc = "fetch"
            \/ /\ run'.pc = "execute" /\ run'.entry = <<cpu'>>
               /\ \/ cpu' = cpu
                  \/ /\ HasHook("MEM_FETCH") /\ run.decoded.length = 0 /\ cpu.exc = "none"
                     /\ cpu'.exc = "ud"
<1> DEFINE notify == HasHook("MEM_FETCH")
           c == IF notify /\ run.decoded.length = 0 THEN Raise(cpu, "ud") ELSE cpu
           fires == notify /\ run.decoded.length # 0
           q == IF fires THEN "fetch" ELSE "execute"
           e == IF fires THEN <<>> ELSE <<c>>
<1>0. cpu \in Contexts /\ run \in Runs /\ eng \in Engines /\ StepOK /\ FetchOK
  BY DEF Base, Shape
<1>1. run.pc = "dispatch" /\ UNCHANGED <<mem, icache, eng, dirty, host>> /\ cpu' = c
  BY DEF NotifyFetchedBytes
<1>2. run' = [run EXCEPT !.pc = q, !.entry = e]
  BY DEF NotifyFetchedBytes
<1>3. "ud" \in Faults
  BY DEF Faults
<1>4. /\ Raise(cpu, "ud") \in Contexts
      /\ Raise(cpu, "ud").key = cpu.key /\ Raise(cpu, "ud").cs = cpu.cs
      /\ Raise(cpu, "ud") = cpu \/ (cpu.exc = "none" /\ Raise(cpu, "ud").exc = "ud")
  BY <1>0, <1>3, RaiseFields DEF Raise
<1>5. c \in Contexts /\ c.key = cpu.key /\ c.cs = cpu.cs
  BY <1>0, <1>4
<1>6. c = cpu \/ (notify /\ run.decoded.length = 0 /\ cpu.exc = "none" /\ c.exc = "ud")
  BY <1>4
<1>7. /\ q \in Pcs /\ e \in Snapshots /\ q \in {"fetch", "execute"}
      /\ q = "fetch" => e = <<>> /\ c = cpu /\ eng.hooks # {}
      /\ q = "execute" => e = <<c>> /\ e # <<>>
  BY <1>5, SnapshotFields DEF Pcs, Sites, HasHook
<1> HIDE DEF c, q, e
<1>8. /\ run' \in Runs /\ run'.pc = q /\ run'.entry = e /\ run'.plain = run.plain
      /\ run'.decoded = run.decoded /\ run'.rip_pre = run.rip_pre /\ run'.bytes = run.bytes
  BY <1>0, <1>2, <1>7 DEF Runs
<1>9. FetchOK'
  BY <1>0, <1>1, <1>7, <1>8 DEF FetchOK, Prefetching, Sites
<1>10. StepOK'
  BY <1>0, <1>1, <1>7, <1>8 DEF StepOK, Stepping
<1>11. Base'
  BY <1>0, <1>1, <1>5, <1>8, <1>9, <1>10, EngineFrame
<1> QED
  BY <1>1, <1>5, <1>6, <1>7, <1>8, <1>11

LEMMA FetchHooksEffect ==
  ASSUME Base, FetchHooksReturn
  PROVE  /\ Base' /\ run.pc = "fetch" /\ UNCHANGED <<cpu, mem, icache, eng, dirty, host>>
         /\ run'.decoded = run.decoded /\ run'.rip_pre = run.rip_pre
         /\ run'.pc = "execute" /\ run'.entry = <<cpu>>
<1>0. cpu \in Contexts /\ run \in Runs /\ eng \in Engines /\ StepOK /\ FetchOK
  BY DEF Base, Shape
<1>1. /\ run.pc = "fetch" /\ UNCHANGED <<cpu, mem, icache, eng, dirty, host>>
      /\ run' = [run EXCEPT !.pc = "execute", !.entry = <<cpu>>]
  BY DEF FetchHooksReturn
<1>2. "execute" \in Pcs /\ <<cpu>> \in Snapshots /\ <<cpu>> # <<>>
  BY <1>0, SnapshotFields DEF Pcs
<1>3. /\ run' \in Runs /\ run'.pc = "execute" /\ run'.entry = <<cpu>> /\ run'.plain = run.plain
      /\ run'.decoded = run.decoded /\ run'.rip_pre = run.rip_pre /\ run'.bytes = run.bytes
  BY <1>0, <1>1, <1>2 DEF Runs
<1>4. FetchOK' /\ StepOK'
  BY <1>0, <1>1, <1>2, <1>3 DEF FetchOK, Prefetching, Sites, StepOK, Stepping
<1> QED
  BY <1>0, <1>1, <1>3, <1>4, EngineFrame

LEMMA ExecuteFlaggedEffect ==
  ASSUME Base, ExecuteFlagged
  PROVE  /\ Base' /\ run.pc = "execute" /\ UNCHANGED <<mem, icache, eng, dirty, host>>
         /\ run.decoded.flags \cap {"UD", "BP"} # {}
         /\ cpu' = Raise(cpu, IF "BP" \in run.decoded.flags THEN "bp" ELSE "ud")
         /\ cpu'.exc \in Faults /\ run' = Idle(cpu'.exc)
<1> DEFINE f == IF "BP" \in run.decoded.flags THEN "bp" ELSE "ud"
<1>0. cpu \in Contexts /\ eng \in Engines
  BY DEF Base, Shape
<1>1. /\ run.pc = "execute" /\ UNCHANGED <<mem, icache, eng, dirty, host>>
      /\ run.decoded.flags \cap {"UD", "BP"} # {}
      /\ cpu' = Raise(cpu, f) /\ run' = Idle(cpu'.exc)
  BY DEF ExecuteFlagged, Fail
<1>2. f \in Faults
  BY DEF Faults
<1> HIDE DEF f
<1>3. cpu' \in Contexts /\ cpu'.exc \in Faults
  BY <1>0, <1>1, <1>2, RaiseFields
<1>4. Base'
  BY <1>0, <1>1, <1>3, EndsBase, ResultsType
<1> QED
  BY <1>1, <1>3, <1>4 DEF f

\* cpu_step_finish: the rollback, or the advance of rip.
FinishFaults(c) ==
  /\ c.exc # "none" /\ cpu' = Restored(c, run.entry[1], run.decoded.flags) /\ cpu'.exc = c.exc
  /\ run' = Idle(c.exc)
FinishDone(c) ==
  /\ c.exc = "none" /\ cpu'.exc = "none" /\ run' = AfterStep(run)
  /\ cpu'.key = c.key /\ cpu'.cs = c.cs
  /\ cpu'.rip = IF "BRANCH" \in run.decoded.flags THEN c.rip ELSE run.rip_pre + c.last

LEMMA FinishEffect ==
  ASSUME Base, run.pc \in {"execute", "write"}, NEW c \in Contexts, FinishStep(c),
         UNCHANGED eng
  PROVE  /\ cpu' \in Contexts /\ run' \in Runs /\ FetchOK' /\ StepOK'
         /\ cpu'.key.valid => cpu'.key = c.key /\ cpu'.cs = c.cs
         /\ FinishFaults(c) \/ FinishDone(c)
<1> DEFINE flags == run.decoded.flags
           snap == run.entry[1]
           back == Restored(c, snap, flags)
           r == IF "BRANCH" \in flags THEN c.rip ELSE run.rip_pre + c.last
<1>0. cpu \in Contexts /\ run \in Runs /\ StepOK /\ FetchOK
  BY DEF Base, Shape
<1>1. snap \in Contexts
  BY <1>0, SnapshotFields DEF StepOK, Runs
<1>2. /\ c.exc # "none" => cpu' = back /\ run' = Idle(back.exc)
      /\ c.exc = "none" => cpu' = [c EXCEPT !.rip = r] /\ run' = AfterStep(run)
  BY DEF FinishStep, Fail
<1>3. r \in Rips
  <2>1. run.rip_pre \in Addrs /\ c.last \in 0..2 /\ c.rip \in Rips
    BY <1>0 DEF StepOK, Stepping, Contexts
  <2> QED
    BY <2>1, EngineAssumption DEF Addrs, Rips
<1>4. CASE c.exc # "none"
  <2>1. back \in Contexts /\ back.exc = c.exc /\ (back.key.valid => back.key = c.key /\ back.cs = c.cs)
    BY <1>1, RestoredFields
  <2>2. c.exc \in Results
    BY <1>4, ResultsType
  <2>3. run' \in Runs /\ run'.pc = "idle" /\ run'.entry = <<>> /\ run'.plain = FALSE
    BY <1>2, <1>4, <2>1, <2>2, IdleType
  <2>4. FetchOK' /\ StepOK'
    BY <2>3 DEF FetchOK, Prefetching, Sites, StepOK, Stepping
  <2> QED
    BY <1>2, <1>4, <2>1, <2>3, <2>4 DEF FinishFaults
<1>5. CASE c.exc = "none"
  <2> HIDE DEF r
  <2>1. cpu' \in Contexts /\ cpu'.rip = r /\ cpu'.key = c.key /\ cpu'.cs = c.cs /\ cpu'.exc = c.exc
    BY <1>2, <1>3, <1>5 DEF Contexts
  <2>2. /\ run' \in Runs /\ run'.pc \in {"post", "loop"} /\ run'.entry = <<>>
        /\ run'.bytes = <<>> /\ run'.plain = run.plain /\ (run'.plain => run'.pc = "loop")
    BY <1>0, <1>2, <1>5, AfterStepType
  <2>3. FetchOK' /\ StepOK'
    BY <1>0, <2>2 DEF FetchOK, Prefetching, Sites, StepOK, Stepping
  <2> QED
    BY <1>2, <1>5, <2>1, <2>2, <2>3 DEF FinishDone, r
<1> QED
  BY <1>4, <1>5

\* The decoded instruction of a step that is under way.
LEMMA SteppingDecoded ==
  ASSUME Base, Stepping
  PROVE  \E b \in Windows, m \in Modes :
           /\ b # <<>> /\ b[1] \in Opcodes /\ run.decoded = Decode(b, m) /\ run.decoded.bytes = b
           /\ run.decoded.op = (IF Size(b[1]) > Len(b) THEN "short" ELSE Selected(b[1], m))
           /\ run.decoded.op \in Ops /\ run.decoded.flags = Flags(run.decoded.op)
<1>1. run.decoded \in DecodeResults /\ run.decoded \in DecodedInsts
  BY DEF Base, Shape, StepOK, Runs
<1>2. PICK b \in Windows \ {<<>>}, m \in Modes : run.decoded = Decode(b, m)
  BY <1>1 DEF DecodeResults
<1>3. run.decoded.op \in Ops
  BY <1>1 DEF DecodedInsts, Ops
<1> QED
  BY <1>2, <1>3, DecodeFields

LEMMA ExecuteEffect ==
  ASSUME Base, Execute
  PROVE  /\ Base' /\ run.pc = "execute" /\ UNCHANGED <<mem, icache, eng, dirty, host>>
         /\ run.entry = <<cpu>>
         /\ \E c \in Contexts : /\ Follows(c, cpu, run.decoded.op)
                                /\ cpu'.key.valid => cpu'.key = c.key /\ cpu'.cs = c.cs
                                /\ FinishFaults(c) \/ FinishDone(c)
<1>0. cpu \in Contexts /\ run \in Runs /\ eng \in Engines /\ StepOK
  BY DEF Base, Shape
<1>1. run.pc = "execute" /\ UNCHANGED <<mem, icache, eng, dirty, host>> /\ Stepping
  BY DEF Execute, Stepping
<1>2. PICK c \in Outcomes(run.decoded.op, cpu) : FinishStep(c)
  BY DEF Execute
<1>3. run.decoded.op \in Ops
  BY <1>1, SteppingDecoded
<1>4. Follows(c, cpu, run.decoded.op) /\ c \in Contexts
  BY <1>0, <1>2, <1>3, OutcomesFollow DEF Follows
<1>5. /\ cpu' \in Contexts /\ run' \in Runs /\ FetchOK' /\ StepOK'
      /\ cpu'.key.valid => cpu'.key = c.key /\ cpu'.cs = c.cs
      /\ FinishFaults(c) \/ FinishDone(c)
  BY <1>1, <1>2, <1>4, FinishEffect
<1>6. Base'
  BY <1>0, <1>1, <1>5, EngineFrame
<1>7. run.entry = <<cpu>>
  BY <1>0, <1>1 DEF StepOK
<1> QED
  BY <1>1, <1>4, <1>5, <1>6, <1>7

\* A store keeps everything of memory but the unit it writes, which becomes dirty if it
\* changed.
LEMMA StoreFields ==
  ASSUME mem \in Memories, dirty \subseteq Addrs, NEW a \in StoreCells, NEW v \in StoreOps,
         GuestStore(a, v)
  PROVE  /\ mem' \in Memories /\ mem'.exec = mem.exec /\ mem'.version = mem.version
         /\ dirty \subseteq dirty' /\ dirty' \subseteq Addrs
         /\ \A b \in Addrs : b \notin dirty' => mem'.code[b] = mem.code[b]
<1>1. a \in Addrs /\ v \in Opcodes
  BY EngineAssumption
<1>2. mem' = [mem EXCEPT !.code = [mem.code EXCEPT ![a] = v]]
  BY DEF GuestStore, Memories
<1>3. mem.code \in [Addrs -> Opcodes]
  BY DEF Memories
<1> DEFINE code == [mem.code EXCEPT ![a] = v]
<1>4. code \in [Addrs -> Opcodes] /\ \A b \in Addrs : code[b] = IF b = a THEN v ELSE mem.code[b]
  BY <1>1, <1>3
<1> HIDE DEF code
<1>5. mem' = [mem EXCEPT !.code = code]
  BY <1>2 DEF code
<1>6. mem' \in Memories /\ mem'.code = code /\ mem'.exec = mem.exec /\ mem'.version = mem.version
  BY <1>4, <1>5 DEF Memories
<1>7. dirty' = IF mem.code[a] = v THEN dirty ELSE dirty \cup {a}
  BY DEF GuestStore
<1> QED
  BY <1>1, <1>4, <1>6, <1>7

LEMMA ExecuteStoreEffect ==
  ASSUME Base, NEW a \in StoreCells, NEW v \in StoreOps, ExecuteStore(a, v)
  PROVE  /\ Base' /\ run.pc \in {"execute", "write"} /\ UNCHANGED <<icache, eng, host>>
         /\ GuestStore(a, v) /\ run.decoded.op = "store"
         /\ \E c \in Contexts :
              /\ c.rip = cpu.rip /\ c.gpr = cpu.gpr /\ c.vec = cpu.vec /\ c.cs = cpu.cs
              /\ c.exc = cpu.exc /\ c.key = cpu.key /\ c.last = 1
              /\ cpu'.key.valid => cpu'.key = c.key /\ cpu'.cs = c.cs
              /\ FinishFaults(c) \/ FinishDone(c)
<1> DEFINE c == [cpu EXCEPT !.last = 1]
<1>0. cpu \in Contexts /\ mem \in Memories /\ dirty \subseteq Addrs
  BY DEF Base, Shape
<1>1. /\ run.pc \in {"execute", "write"} /\ UNCHANGED <<icache, eng, host>>
      /\ GuestStore(a, v) /\ run.decoded.op = "store" /\ FinishStep(c)
  BY DEF ExecuteStore
<1>2. /\ c \in Contexts /\ c.rip = cpu.rip /\ c.gpr = cpu.gpr /\ c.vec = cpu.vec /\ c.cs = cpu.cs
      /\ c.exc = cpu.exc /\ c.key = cpu.key /\ c.last = 1
  BY <1>0 DEF Contexts
<1> HIDE DEF c
<1>3. /\ cpu' \in Contexts /\ run' \in Runs /\ FetchOK' /\ StepOK'
      /\ cpu'.key.valid => cpu'.key = c.key /\ cpu'.cs = c.cs
      /\ FinishFaults(c) \/ FinishDone(c)
  BY <1>1, <1>2, FinishEffect
<1>4. mem' \in Memories /\ mem'.version = mem.version /\ dirty' \subseteq Addrs
  BY <1>0, <1>1, StoreFields
<1>5. Shape'
  BY <1>1, <1>3, <1>4 DEF Base, Shape
<1>6. SlotsOK' /\ VersionOK'
  BY <1>1, <1>4 DEF Base, SlotsOK, VersionOK, Filled
<1>7. Base'
  BY <1>3, <1>5, <1>6 DEF Base
<1> QED
  BY <1>1, <1>2, <1>3, <1>7

LEMMA NotifyWriteEffect ==
  ASSUME Base, NotifyWrite
  PROVE  /\ Base' /\ run.pc = "execute" /\ run'.pc = "write" /\ cpu.exc = "none"
         /\ UNCHANGED <<cpu, mem, icache, eng, dirty, host>>
         /\ run'.decoded = run.decoded /\ run'.rip_pre = run.rip_pre /\ run'.entry = run.entry
<1>0. cpu \in Contexts /\ run \in Runs /\ eng \in Engines /\ StepOK /\ FetchOK /\ "write" \in Pcs
  BY DEF Base, Shape, Pcs, Sites
<1>1. /\ run.pc = "execute" /\ run' = [run EXCEPT !.pc = "write"] /\ cpu.exc = "none"
      /\ run.decoded.op = "store" /\ eng.hooks # {}
      /\ UNCHANGED <<cpu, mem, icache, eng, dirty, host>>
  BY DEF NotifyWrite, HasHook
<1>2. /\ run' \in Runs /\ run'.pc = "write" /\ run'.plain = run.plain /\ run'.bytes = run.bytes
      /\ run'.decoded = run.decoded /\ run'.rip_pre = run.rip_pre /\ run'.entry = run.entry
  BY <1>0, <1>1, PcFields
<1>3. run.entry = <<cpu>> /\ <<cpu>>[1] = cpu
  BY <1>0, <1>1 DEF StepOK
<1>4. FetchOK' /\ StepOK'
  BY <1>0, <1>1, <1>2, <1>3 DEF FetchOK, Prefetching, Sites, StepOK, Stepping
<1> QED
  BY <1>0, <1>1, <1>2, <1>4, EngineFrame

-----------------------------------------------------------------------------
(* The calls of the host                                                   *)

LEMMA EmuStopEffect ==
  ASSUME Base, EmuStop
  PROVE  /\ Base' /\ UNCHANGED <<cpu, mem, icache, run, dirty, host>>
         /\ eng'.hooks = eng.hooks /\ eng'.escapes = eng.escapes
<1>1. UNCHANGED <<cpu, mem, icache, run, dirty, host>> /\ eng' = [eng EXCEPT !.stop = TRUE]
  BY DEF EmuStop
<1>2. cpu \in Contexts /\ run \in Runs /\ eng \in Engines /\ FetchOK /\ StepOK
  BY DEF Base, Shape
<1>3. eng' \in Engines /\ eng'.hooks = eng.hooks /\ eng'.escapes = eng.escapes
  BY <1>1, <1>2 DEF Engines
<1>4. FetchOK' /\ StepOK'
  BY <1>1, <1>2, <1>3 DEF FetchOK, Prefetching, Sites, StepOK, Stepping
<1> QED
  BY <1>1, <1>2, <1>3, <1>4, EngineFrame

\* What is common to all host calls: they are made from a site, are counted, and touch
\* neither the run nor the cache.
LEMMA HostCallFields ==
  ASSUME Base, NEW kind, HostCall(kind)
  PROVE  /\ run.pc \in Sites /\ kind \in host.calls[run.pc] /\ UNCHANGED <<icache, run>>
         /\ host' \in Hosts /\ host'.calls = host.calls /\ host'.made = host.made + 1
         /\ mem.version \in Nat /\ mem.version + 1 \in 1..MaxCalls+1 /\ host.made \in Nat
<1>1. host \in Hosts /\ mem \in Memories /\ mem.version <= host.made + 1
  BY DEF Base, Shape, VersionOK
<1>2. /\ run.pc \in Sites /\ kind \in host.calls[run.pc] /\ UNCHANGED <<icache, run>>
      /\ host.made < MaxCalls /\ host' = [host EXCEPT !.made = host.made + 1]
  BY DEF HostCall
<1>3. host.made \in Nat /\ host.made + 1 \in 0..MaxCalls
  BY <1>1, <1>2, EngineAssumption DEF Hosts
<1>4. host' \in Hosts /\ host'.calls = host.calls /\ host'.made = host.made + 1
  BY <1>1, <1>2, <1>3 DEF Hosts
<1>5. mem.version \in 1..MaxCalls+1
  BY <1>1 DEF Memories
<1>6. mem.version \in Nat /\ mem.version + 1 \in 1..MaxCalls+1
  BY <1>1, <1>2, <1>3, <1>5, EngineAssumption
<1> QED
  BY <1>2, <1>3, <1>4, <1>6

LEMMA HostFrame ==
  ASSUME Base, NEW kind, HostCall(kind),
         cpu' \in Contexts, cpu'.vec = cpu.vec, cpu'.rip = cpu.rip \/ cpu'.rip \in Addrs,
         mem' \in Memories, mem'.version \in {mem.version, mem.version + 1},
         eng' \in Engines, dirty' \subseteq Addrs
  PROVE  Base'
<1>1. /\ run.pc \in Sites /\ UNCHANGED <<icache, run>>
      /\ host' \in Hosts /\ host'.made = host.made + 1
      /\ mem.version \in Nat /\ host.made \in Nat
  BY HostCallFields
<1>2. Shape'
  BY <1>1 DEF Base, Shape
<1>3. run.pc \notin {"loop", "lookup", "prefetch", "classify", "step", "dispatch", "execute"}
  BY <1>1 DEF Sites
<1>4. FetchOK'
  <2>1. FetchOK /\ ~run.plain
    BY <1>1 DEF Base, FetchOK
  <2> QED
    BY <1>1, <1>3, <2>1 DEF FetchOK, Prefetching
<1>5. StepOK'
  BY <1>1, <1>3 DEF Base, StepOK, Stepping
<1>6. \A s \in DOMAIN icache : icache[s].version \in Nat
  BY DEF Base, Shape, SlotRecs
<1>7. SlotsOK'
  BY <1>1, <1>6 DEF Base, SlotsOK, Filled
<1>8. VersionOK'
  BY <1>1 DEF Base, VersionOK
<1> QED
  BY <1>2, <1>4, <1>5, <1>7, <1>8 DEF Base

\* What each kind of host call may change.  "cs" is the one call that changes CS and
\* leaves the cached mode key valid; "rip" the one that changes rip.
HostEffect ==
  \E kind \in CallKinds :
    /\ HostCall(kind)
    /\ cpu' \in Contexts /\ cpu'.vec = cpu.vec /\ eng' \in Engines
    /\ cpu'.rip = cpu.rip \/ (kind = "rip" /\ cpu'.rip \in Addrs)
    /\ cpu'.key.valid => cpu'.key = cpu.key /\ (cpu'.cs = cpu.cs \/ kind = "cs")
    /\ cpu'.exc \in {cpu.exc, "none", "host"}
    /\ \/ UNCHANGED <<mem, dirty>>
       \/ /\ mem' \in Memories /\ mem'.version = mem.version + 1
          /\ dirty' = Overtaken(mem') /\ dirty' \subseteq Addrs

LEMMA HostEffects ==
  ASSUME Base, HostNext
  PROVE  HostEffect
<1>0. cpu \in Contexts /\ mem \in Memories /\ eng \in Engines
  BY DEF Base, Shape
<1>1. ASSUME NEW a \in Addrs, RegWriteRip(a) PROVE HostEffect
  <2>1. HostCall("rip") /\ cpu' = [cpu EXCEPT !.rip = a] /\ UNCHANGED <<mem, eng, dirty>>
    BY <1>1 DEF RegWriteRip
  <2>2. /\ cpu' \in Contexts /\ cpu'.vec = cpu.vec /\ cpu'.rip = a /\ cpu'.key = cpu.key
        /\ cpu'.cs = cpu.cs /\ cpu'.exc = cpu.exc
    BY <1>0, <2>1, Numbers DEF Contexts
  <2> QED
    BY <1>0, <2>1, <2>2 DEF HostEffect, CallKinds
<1>2. ASSUME NEW a \in Addrs, Protect(a) PROVE HostEffect
  <2> DEFINE x == IF a \in mem.exec THEN mem.exec \ {a} ELSE mem.exec \cup {a}
  <2>1. /\ HostCall("protect") /\ dirty' = Overtaken(mem') /\ UNCHANGED <<cpu, eng>>
        /\ mem' = [mem EXCEPT !.exec = x, !.version = mem.version + 1]
    BY <1>2 DEF Protect
  <2>2. x \in SUBSET Addrs /\ mem.version + 1 \in 1..MaxCalls+1
    BY <1>0, <2>1, HostCallFields DEF Memories
  <2> HIDE DEF x
  <2>3. mem' \in Memories /\ mem'.version = mem.version + 1
    BY <1>0, <2>1, <2>2 DEF Memories
  <2>4. dirty' \subseteq Addrs
    BY <2>1 DEF Overtaken
  <2> QED
    BY <1>0, <2>1, <2>3, <2>4 DEF HostEffect, CallKinds
<1>3. ASSUME NEW m \in Modes, RegWriteCs(m) PROVE HostEffect
  <2>1. HostCall("cs") /\ cpu' = [cpu EXCEPT !.cs = m] /\ UNCHANGED <<mem, eng, dirty>>
    BY <1>3 DEF RegWriteCs
  <2>2. /\ cpu' \in Contexts /\ cpu'.vec = cpu.vec /\ cpu'.rip = cpu.rip /\ cpu'.key = cpu.key
        /\ cpu'.exc = cpu.exc
    BY <1>0, <2>1 DEF Contexts
  <2> QED
    BY <1>0, <2>1, <2>2 DEF HostEffect, CallKinds
<1>4. ASSUME NEW m \in Modes, ContextWrite(m) PROVE HostEffect
  <2> DEFINE k == [cpu.key EXCEPT !.valid = FALSE]
  <2>1. /\ HostCall("context") /\ UNCHANGED <<mem, eng, dirty>>
        /\ cpu' = [cpu EXCEPT !.cs = m, !.key = k]
    BY <1>0, <1>4 DEF ContextWrite, Contexts
  <2>2. k \in Keys /\ k.valid = FALSE
    BY <1>0, DropKey
  <2> HIDE DEF k
  <2>3. /\ cpu' \in Contexts /\ cpu'.vec = cpu.vec /\ cpu'.rip = cpu.rip /\ cpu'.key = k
        /\ cpu'.exc = cpu.exc
    BY <1>0, <2>1, <2>2 DEF Contexts
  <2> QED
    BY <1>0, <2>1, <2>2, <2>3 DEF HostEffect, CallKinds
<1>5. ASSUME NEW a \in StoreCells, NEW v \in StoreOps, MemWrite(a, v) PROVE HostEffect
  <2> DEFINE code == [mem.code EXCEPT ![a] = v]
  <2>1. /\ HostCall("mem_write") /\ dirty' = Overtaken(mem') /\ UNCHANGED <<cpu, eng>>
        /\ mem' = [mem EXCEPT !.code = code, !.version = mem.version + 1]
    BY <1>0, <1>5 DEF MemWrite, Memories
  <2>2. code \in [Addrs -> Opcodes] /\ mem.version + 1 \in 1..MaxCalls+1
    BY <1>0, <2>1, HostCallFields, EngineAssumption DEF Memories
  <2> HIDE DEF code
  <2>3. mem' \in Memories /\ mem'.version = mem.version + 1
    BY <1>0, <2>1, <2>2 DEF Memories
  <2>4. dirty' \subseteq Addrs
    BY <2>1 DEF Overtaken
  <2> QED
    BY <1>0, <2>1, <2>3, <2>4 DEF HostEffect, CallKinds
<1>6. ASSUME NEW type \in HookChoices, ToggleHook(type) PROVE HostEffect
  <2> DEFINE h == IF type \in eng.hooks THEN eng.hooks \ {type} ELSE eng.hooks \cup {type}
  <2>1. /\ HostCall("hooks") /\ UNCHANGED <<cpu, mem, dirty>> /\ eng' = [eng EXCEPT !.hooks = h]
    BY <1>6 DEF ToggleHook
  <2>2. h \in SUBSET HookTypes
    BY <1>0, EngineAssumption DEF Engines
  <2> HIDE DEF h
  <2>3. eng' \in Engines
    BY <1>0, <2>1, <2>2 DEF Engines
  <2> QED
    BY <1>0, <2>1, <2>3 DEF HostEffect, CallKinds
<1>7. ASSUME NEW class \in EscapeClasses, ToggleEscape(class) PROVE HostEffect
  <2> DEFINE x == IF class \in eng.escapes THEN eng.escapes \ {class} ELSE eng.escapes \cup {class}
  <2>1. /\ HostCall("escapes") /\ UNCHANGED <<cpu, mem, dirty>> /\ eng' = [eng EXCEPT !.escapes = x]
    BY <1>7 DEF ToggleEscape
  <2>2. x \in SUBSET EscapeClasses
    BY <1>0 DEF Engines
  <2> HIDE DEF x
  <2>3. eng' \in Engines
    BY <1>0, <2>1, <2>2 DEF Engines
  <2> QED
    BY <1>0, <2>1, <2>3 DEF HostEffect, CallKinds
<1>8. ASSUME ExceptionRaise PROVE HostEffect
  <2>1. HostCall("raise") /\ cpu' = Raise(cpu, "host") /\ UNCHANGED <<mem, eng, dirty>>
    BY <1>8 DEF ExceptionRaise
  <2>2. "host" \in Faults
    BY DEF Faults
  <2>3. /\ cpu' \in Contexts /\ cpu'.vec = cpu.vec /\ cpu'.rip = cpu.rip /\ cpu'.key = cpu.key
        /\ cpu'.cs = cpu.cs /\ cpu'.exc \in {cpu.exc, "host"}
    BY <1>0, <2>1, <2>2, RaiseFields
  <2> QED
    BY <1>0, <2>1, <2>3 DEF HostEffect, CallKinds
<1>9. ASSUME ExceptionClear PROVE HostEffect
  <2>1. HostCall("clear") /\ cpu' = [cpu EXCEPT !.exc = "none"] /\ UNCHANGED <<mem, eng, dirty>>
    BY <1>9 DEF ExceptionClear
  <2>2. /\ cpu' \in Contexts /\ cpu'.vec = cpu.vec /\ cpu'.rip = cpu.rip /\ cpu'.key = cpu.key
        /\ cpu'.cs = cpu.cs /\ cpu'.exc = "none"
    BY <1>0, <2>1 DEF Contexts, Exceptions
  <2> QED
    BY <1>0, <2>1, <2>2 DEF HostEffect, CallKinds
<1> QED
  BY <1>1, <1>2, <1>3, <1>4, <1>5, <1>6, <1>7, <1>8, <1>9 DEF HostNext

LEMMA HostBase ==
  ASSUME Base, HostNext
  PROVE  Base'
<1>1. HostEffect
  BY HostEffects
<1>2. mem \in Memories /\ dirty \subseteq Addrs
  BY DEF Base, Shape
<1> QED
  BY <1>1, <1>2, HostFrame DEF HostEffect

-----------------------------------------------------------------------------
(* The base invariant holds                                                *)

LEMMA NextBase ==
  ASSUME Base, [Next]_vars
  PROVE  Base'
<1>1. CASE \E begin \in host.begins, until \in host.untils, count \in host.counts :
             EmuStart(begin, until, count)
  BY <1>1, EmuStartEffect
<1>2. CASE EngineNext
  BY <1>2, LoopHeadEffect, PreHooksReturnEffect, LookupEffect, PrefetchEffect, ClassifyEffect,
     EscapeReturnEffect, PostHooksReturnEffect, StepEffect, NotifyEffect, FetchHooksEffect,
     ExecuteFlaggedEffect, ExecuteEffect, NotifyWriteEffect, ExecuteStoreEffect DEF EngineNext
<1>3. CASE EmuStop
  BY <1>3, EmuStopEffect
<1>4. CASE HostNext
  BY <1>4, HostBase
<1>5. CASE UNCHANGED vars
  BY <1>5 DEF vars, Base, Shape, FetchOK, Prefetching, StepOK, Stepping, SlotsOK, Filled, VersionOK
<1> QED
  BY <1>1, <1>2, <1>3, <1>4, <1>5 DEF Next

LEMMA BaseInvariant == Spec => []Base
  BY InitBase, NextBase, PTL DEF Spec

LEMMA BaseType == Base => TypeOK
<1> SUFFICES ASSUME Base PROVE TypeOK
  OBVIOUS
<1>1. cpu \in Contexts /\ mem \in Memories /\ run \in Runs /\ host \in Hosts /\ dirty \subseteq Addrs
  BY DEF Base, Shape
<1>2. \A s \in DOMAIN icache : icache[s].decoded \in DecodedInsts
  BY DEF Base, Shape, SlotRecs
<1>3. mem.code \in [Addrs -> Opcodes] /\ mem.exec \subseteq Addrs /\ mem.version \in 1..MaxCalls+1
  BY <1>1 DEF Memories
<1>4. /\ run.decoded \in DecodedInsts /\ run.result \in Results /\ run.pc \in Pcs
      /\ run.tries \in 0..Attempts
  BY <1>1 DEF Runs
<1>5. host.made \in 0..MaxCalls
  BY <1>1 DEF Hosts
<1>6. (run.entry # <<>>) = (run.pc \in {"execute", "write", "escape"})
  BY DEF Base, StepOK
<1>7. run.pc = "step" /\ run.bytes = <<>> /\ cpu.exc = "none" => eng.hooks = {}
  <2>1. run.plain => eng.hooks = {}
    BY DEF Base, FetchOK
  <2>2. run.pc = "step" /\ ~run.plain /\ cpu.exc = "none" => run.bytes # <<>>
    BY DEF Base, FetchOK
  <2> QED
    BY <2>1, <2>2
<1> QED
  BY <1>1, <1>2, <1>3, <1>4, <1>5, <1>6, <1>7
     DEF TypeOK, Contexts, Registers, Exceptions, Keys, Pcs

\* cpueaxh.cpp, executor.hpp, inst_cache.hpp: whatever the host calls from its callbacks,
\* rip stays within reach of the code, slots hold decoded instructions, and a copy of the
\* context is kept exactly while a handler or an escape callback runs; and a step that
\* fetches for itself does so while no hook is registered.
THEOREM ShapesKept == Spec => []TypeOK
  BY BaseInvariant, BaseType, PTL

\* What the host calls from where is fixed by the setup.
HostOK == \E s \in Setups : host.calls = s.calls

LEMMA HostStep ==
  ASSUME Base, HostOK, [Next]_vars
  PROVE  HostOK'
<1>1. host'.calls = host.calls
  <2>1. CASE HostNext
    <3>1. PICK kind \in CallKinds : HostCall(kind)
      BY <2>1, HostEffects DEF HostEffect
    <3> QED
      BY <3>1, HostCallFields
  <2>2. CASE UNCHANGED host
    BY <2>2
  <2> QED
    BY <2>1, <2>2 DEF Next, EngineNext, EmuStart, LoopHead, PreHooksReturn, LookupAddress,
       PrefetchUnit, PrefetchEnds, PrefetchInvalid, InvalidHooksReturn, ClassifyEscape, EscapeReturn, PostHooksReturn, StepWithPrefetch, NotifyFetchedBytes,
       FetchHooksReturn, ExecuteFlagged, Execute, NotifyWrite, ExecuteStore, EmuStop, vars
<1> QED
  BY <1>1 DEF HostOK

LEMMA HostInvariant == Spec => []HostOK
<1>1. Init => HostOK
  BY DEF Init, InitWith, HostOK
<1> QED
  BY <1>1, BaseInvariant, HostStep, PTL DEF Spec

-----------------------------------------------------------------------------
(* The mode key                                                            *)

\* No callback writes CS_LONG_MODE or CS_DB through cpueaxh_reg_write, nor does the host
\* between runs: the one call that changes the mode and leaves the cached key valid.
NoCsCall == \A s \in Setups, p \in Sites : "cs" \notin s.calls[p]

\* A valid key after a step is the one before it with CS as it was, or was just computed.
KeyFollows == cpu'.key.valid => /\ cpu'.cs = cpu.cs
                                /\ cpu'.key = cpu.key \/ cpu'.key.bits = ModeKey(cpu)

LEMMA PrimeFollows ==
  ASSUME cpu \in Contexts, cpu'.cs = PrimeModeKey(cpu).cs, cpu'.key = PrimeModeKey(cpu).key
  PROVE  KeyFollows
<1>1. cpu'.cs = cpu.cs /\ cpu'.key = [valid |-> TRUE, bits |-> ModeKey(cpu)]
  BY PrimeFields
<1>2. cpu'.key.bits = ModeKey(cpu)
  BY <1>1
<1> QED
  BY <1>1, <1>2 DEF KeyFollows

LEMMA EngineKey ==
  ASSUME Base, EngineNext
  PROVE  KeyFollows
<1>0. cpu \in Contexts /\ mem \in Memories /\ PrimeModeKey(cpu) \in Contexts
  BY PrimeFields DEF Base, Shape
<1>1. CASE UNCHANGED cpu
  BY <1>1 DEF KeyFollows
<1>2. CASE LoopHead \/ PreHooksReturn \/ PostHooksReturn \/ FetchHooksReturn \/ NotifyWrite
  BY <1>1, <1>2 DEF LoopHead, PreHooksReturn, PostHooksReturn, FetchHooksReturn, NotifyWrite
<1>3. CASE LookupAddress
  <2>1. UNCHANGED cpu \/ cpu' = PrimeModeKey(cpu)
    BY <1>3, LookupEffect DEF LookupFast, LookupPrefetch
  <2> QED
    BY <1>0, <1>1, <2>1, PrimeFollows
<1>4. CASE ClassifyEscape
  <2>1. UNCHANGED cpu \/ cpu' = Raise(cpu, "bp") \/ cpu' = Raise(cpu, "ud")
    BY <1>4, ClassifyEffect DEF ToEscape, ToStep, ToFault
  <2>2. {"bp", "ud"} \subseteq Faults
    BY DEF Faults
  <2>3. cpu'.key = cpu.key /\ cpu'.cs = cpu.cs
    BY <1>0, <2>1, <2>2, RaiseFields
  <2> QED
    BY <2>3 DEF KeyFollows
<1>5. CASE EscapeReturn
  BY <1>5, <1>1, EscapeReturnEffect DEF KeyFollows
<1>6. CASE StepWithPrefetch
  <2>1. UNCHANGED cpu \/ cpu' = PrimeModeKey(cpu) \/ cpu' = StepContext
    BY <1>6, StepEffect DEF StepHit, StepFill
  <2>2. cpu' = StepContext => cpu'.cs = PrimeModeKey(cpu).cs /\ cpu'.key = PrimeModeKey(cpu).key
    BY <1>0, StepContextFields, PrimeFields
  <2> QED
    BY <1>0, <1>1, <2>1, <2>2, PrimeFollows
<1>7. CASE NotifyFetchedBytes
  BY <1>7, NotifyEffect DEF KeyFollows
<1>8. CASE ExecuteFlagged
  <2>1. cpu' = Raise(cpu, "bp") \/ cpu' = Raise(cpu, "ud")
    BY <1>8, ExecuteFlaggedEffect
  <2>2. {"bp", "ud"} \subseteq Faults
    BY DEF Faults
  <2>3. cpu'.key = cpu.key /\ cpu'.cs = cpu.cs
    BY <1>0, <2>1, <2>2, RaiseFields
  <2> QED
    BY <2>3 DEF KeyFollows
<1>9. CASE Execute
  <2>1. PICK c \in Contexts : /\ Follows(c, cpu, run.decoded.op)
                              /\ cpu'.key.valid => cpu'.key = c.key /\ cpu'.cs = c.cs
    BY <1>9, ExecuteEffect
  <2> QED
    BY <2>1 DEF Follows, KeyFollows
<1>10. CASE \E a \in StoreCells, v \in StoreOps : ExecuteStore(a, v)
  <2>1. PICK c \in Contexts : /\ c.key = cpu.key /\ c.cs = cpu.cs
                              /\ cpu'.key.valid => cpu'.key = c.key /\ cpu'.cs = c.cs
    BY <1>10, ExecuteStoreEffect
  <2> QED
    BY <2>1 DEF KeyFollows
<1>11. CASE PrefetchUnit \/ PrefetchEnds \/ PrefetchInvalid \/ InvalidHooksReturn
  BY <1>11, PrefetchEffect DEF PrefetchStep, KeyFollows
<1> QED
  BY <1>2, <1>3, <1>4, <1>5, <1>6, <1>7, <1>8, <1>9, <1>10, <1>11 DEF EngineNext

LEMMA ModeKeyStep ==
  ASSUME NoCsCall, Base, HostOK, ModeKeyCurrent, [Next]_vars
  PROVE  ModeKeyCurrent'
<1>1. KeyFollows => ModeKeyCurrent'
  BY DEF KeyFollows, ModeKeyCurrent, ModeKey
<1>2. CASE \E begin \in host.begins, until \in host.untils, count \in host.counts :
             EmuStart(begin, until, count)
  <2>1. cpu'.key = cpu.key /\ cpu'.cs = cpu.cs
    BY <1>2, EmuStartEffect
  <2> QED
    BY <2>1, <1>1 DEF KeyFollows
<1>3. CASE EngineNext
  BY <1>1, <1>3, EngineKey
<1>4. CASE EmuStop \/ UNCHANGED vars
  BY <1>4 DEF EmuStop, vars, ModeKeyCurrent
<1>5. CASE HostNext
  <2>1. PICK kind \in CallKinds :
          /\ HostCall(kind)
          /\ cpu'.key.valid => cpu'.key = cpu.key /\ (cpu'.cs = cpu.cs \/ kind = "cs")
    BY <1>5, HostEffects DEF HostEffect
  <2>2. kind # "cs"
    BY <2>1, HostCallFields DEF NoCsCall, HostOK
  <2> QED
    BY <1>1, <2>1, <2>2 DEF KeyFollows
<1> QED
  BY <1>2, <1>3, <1>4, <1>5 DEF Next

\* inst_cache.hpp, cpu_inst_cache_mode_key: if the host changes the mode only through
\* cpueaxh_context_write or in an escape callback, a valid cached mode key always equals
\* the mode bits of CS.  (With cpueaxh_reg_write of CS it does not: engine_mode_key.)
THEOREM ModeKeyValid ==
  ASSUME NoCsCall
  PROVE  Spec => []ModeKeyCurrent
<1>1. Init => ModeKeyCurrent
  BY DEF Init, InitWith, ModeKeyCurrent
<1>2. Base /\ HostOK /\ ModeKeyCurrent /\ [Next]_vars => ModeKeyCurrent'
  BY ModeKeyStep
<1> QED
  BY <1>1, <1>2, BaseInvariant, HostInvariant, PTL DEF Spec

-----------------------------------------------------------------------------
(* The bytes behind the cache and the dispatch                             *)

\* No hook that runs before or during the prefetch writes rip: neither a pre-hook nor a
\* MEM_FETCH_UNMAPPED or _PROT hook.  One that does makes cpueaxh_emu_start pair the bytes
\* prefetched at the old address with the new rip.
NoEarlyRip == \A s \in Setups : "rip" \notin s.calls["pre"] \cup s.calls["invalid"]

\* Memory holds a unit at an address for execution, unless it changed behind the cache.
Held(a, unit) == a \notin dirty => a \in mem.exec /\ mem.code[a] = unit

\* From the head of the loop to the step, rip is still the address that was read, and
\* memory holds the units copied from there.
Ahead ==
  /\ run.pc \in {"pre", "lookup"} \/ Prefetching => run.plain \/ cpu.rip = run.address
  /\ Prefetching /\ run.bytes # <<>> => Held(run.address, run.bytes[1])
  /\ Prefetching /\ Len(run.bytes) = 2 => Held(run.address + 1, run.bytes[2])

\* The bytes of an entry of the current version are the ones in memory, unless they
\* changed behind the cache.
EntryBytes ==
  \A s \in DOMAIN icache :
    icache[s].version = mem.version /\ Clean(icache[s].tag) =>
      Window(icache[s].tag) # <<>> /\ icache[s].decoded.bytes = Window(icache[s].tag)

\* And so are the bytes of the instruction that is dispatched.
DispatchBytes ==
  run.pc = "dispatch" /\ Clean(run.rip_pre) =>
    Window(run.rip_pre) # <<>> /\ run.decoded.bytes = Window(run.rip_pre)

BytesOK == Ahead /\ EntryBytes /\ DispatchBytes

LEMMA BytesFrame ==
  ASSUME BytesOK, UNCHANGED <<mem, icache, dirty>>, Ahead', DispatchBytes'
  PROVE  BytesOK'
<1>1. EntryBytes'
  BY DEF BytesOK, EntryBytes, Clean, Window
<1> QED
  BY <1>1 DEF BytesOK

\* Outside the way from the head of the loop to the dispatch nothing is asked of the run.
LEMMA BytesQuiet ==
  ASSUME BytesOK, UNCHANGED <<mem, icache, dirty>>,
         run'.pc \notin {"pre", "lookup", "prefetch", "invalid", "classify", "step", "dispatch"}
  PROVE  BytesOK'
<1>1. Ahead' /\ DispatchBytes'
  BY DEF Ahead, Prefetching, DispatchBytes
<1> QED
  BY <1>1, BytesFrame

\* Two units that memory holds are the window there, if it is clean.
LEMMA HeldWindow ==
  ASSUME run \in Runs, Ahead, Prefetching, Len(run.bytes) = 2, Clean(run.address)
  PROVE  run.bytes = Window(run.address)
<1>1. run.bytes \in Windows
  BY DEF Runs
<1>2. PICK o \in Opcodes, q \in Opcodes : run.bytes = <<o, q>>
  BY <1>1 DEF Windows
<1>3. run.bytes # <<>> /\ run.bytes[1] = o /\ run.bytes[2] = q
  BY <1>2
<1>4. run.address \notin dirty /\ run.address + 1 \notin dirty
  BY DEF Clean
<1>5. Held(run.address, o) /\ Held(run.address + 1, q)
  BY <1>3 DEF Ahead
<1> QED
  BY <1>2, <1>4, <1>5 DEF Held, Window

\* A guest store leaves the windows of clean addresses as they were.
LEMMA StoreWindow ==
  ASSUME mem \in Memories, dirty \subseteq Addrs, NEW a \in StoreCells, NEW v \in StoreOps,
         GuestStore(a, v), NEW b \in Rips, Clean(b)'
  PROVE  Clean(b) /\ Window(b)' = Window(b)
<1>1. /\ mem'.exec = mem.exec /\ dirty \subseteq dirty'
      /\ \A x \in Addrs : x \notin dirty' => mem'.code[x] = mem.code[x]
  BY StoreFields
<1>2. b \notin dirty' /\ b + 1 \notin dirty' /\ Clean(b)
  BY <1>1 DEF Clean
<1>3. mem.exec \subseteq Addrs
  BY DEF Memories
<1> QED
  BY <1>1, <1>2, <1>3 DEF Window

LEMMA StoreBytes ==
  ASSUME Base, BytesOK, NEW a \in StoreCells, NEW v \in StoreOps, ExecuteStore(a, v)
  PROVE  BytesOK'
<1>0. mem \in Memories /\ dirty \subseteq Addrs /\ run \in Runs
  BY DEF Base, Shape
<1>1. UNCHANGED icache /\ GuestStore(a, v)
  BY DEF ExecuteStore
<1>2. run'.pc \in {"idle", "post", "loop"}
  <2>1. PICK c \in Contexts : FinishFaults(c) \/ FinishDone(c)
    BY ExecuteStoreEffect
  <2>2. CASE FinishDone(c)
    BY <1>0, <2>2, AfterStepType DEF FinishDone
  <2>3. CASE FinishFaults(c)
    BY <2>3, IdleType, ResultsType DEF FinishFaults
  <2> QED
    BY <2>1, <2>2, <2>3
<1>3. mem'.version = mem.version
  BY <1>0, <1>1, StoreFields
<1>4. \A s \in DOMAIN icache : icache[s].tag \in Rips
  BY DEF Base, Shape, SlotRecs
<1>5. \A s \in DOMAIN icache : Clean(icache[s].tag)' =>
        Clean(icache[s].tag) /\ Window(icache[s].tag)' = Window(icache[s].tag)
  BY <1>0, <1>1, <1>4, StoreWindow
<1>6. EntryBytes'
  <2> SUFFICES ASSUME NEW s \in DOMAIN icache, icache[s].version = mem.version,
                      Clean(icache[s].tag)'
               PROVE  Window(icache[s].tag)' # <<>> /\ icache[s].decoded.bytes = Window(icache[s].tag)'
    BY <1>1, <1>3 DEF EntryBytes
  <2> QED
    BY <1>5 DEF BytesOK, EntryBytes
<1> QED
  BY <1>2, <1>6 DEF BytesOK, Ahead, Prefetching, DispatchBytes

\* A version bump makes every entry an entry of an earlier version.  During a prefetch it
\* leaves the unit that was copied, if any, as memory holds it or recorded as dirty.
LEMMA HostBytes ==
  ASSUME NoEarlyRip, Base, HostOK, BytesOK, HostNext
  PROVE  BytesOK'
<1>1. PICK kind \in CallKinds :
        /\ HostCall(kind)
        /\ cpu'.rip = cpu.rip \/ kind = "rip"
        /\ \/ UNCHANGED <<mem, dirty>>
           \/ mem'.version = mem.version + 1 /\ dirty' = Overtaken(mem')
  BY HostEffects DEF HostEffect
<1>2. /\ run.pc \in Sites /\ kind \in host.calls[run.pc] /\ UNCHANGED <<icache, run>>
      /\ mem.version \in Nat
  BY <1>1, HostCallFields
<1>3. run.pc \in {"pre", "invalid"} => cpu'.rip = cpu.rip
  BY <1>1, <1>2 DEF NoEarlyRip, HostOK
<1>4. Ahead' /\ DispatchBytes'
  <2>1. DispatchBytes' /\ (Prefetching => run.pc = "invalid") /\ run.pc # "lookup"
    BY <1>2 DEF DispatchBytes, Prefetching, Sites
  <2>2. run.pc = "pre" \/ Prefetching => run.plain \/ cpu'.rip = run.address
    BY <1>3, <2>1 DEF BytesOK, Ahead
  <2>3. Prefetching => Len(run.bytes) # 2 /\ (run.bytes # <<>> => run.address \in Addrs)
    BY <2>1 DEF Base, FetchOK
  <2>4. ASSUME Prefetching, run.bytes # <<>> PROVE Held(run.address, run.bytes[1])'
    <3>1. CASE UNCHANGED <<mem, dirty>>
      BY <1>2, <2>4, <3>1 DEF BytesOK, Ahead, Held
    <3>2. CASE dirty' = Overtaken(mem')
      BY <1>2, <2>1, <2>3, <2>4, <3>2 DEF Overtaken, Held
    <3> QED
      BY <1>1, <3>1, <3>2
  <2> QED
    BY <1>2, <2>1, <2>2, <2>3, <2>4 DEF Ahead, Prefetching
<1>5. CASE UNCHANGED <<mem, dirty>>
  BY <1>2, <1>4, <1>5, BytesFrame
<1>6. CASE mem'.version = mem.version + 1
  <2>1. \A s \in DOMAIN icache : icache[s].version \in Nat /\ icache[s].version <= mem.version
    BY <1>2 DEF Base, Shape, SlotRecs, SlotsOK, Filled
  <2>2. EntryBytes'
    BY <1>2, <1>6, <2>1 DEF EntryBytes
  <2> QED
    BY <1>4, <2>2 DEF BytesOK
<1> QED
  BY <1>1, <1>5, <1>6

\* A hit dispatches the bytes in memory.
LEMMA HitBytes ==
  ASSUME Base, EntryBytes, NEW r \in Rips, NEW m, Hit(r, m), Clean(r)
  PROVE  Window(r) # <<>> /\ icache[Index(r)].decoded.bytes = Window(r)
  BY HitFields DEF EntryBytes

LEMMA DispatchedBytes ==
  ASSUME Base, BytesOK, UNCHANGED <<mem, icache, dirty>>, NEW c \in Contexts,
         NEW d \in DecodedInsts, Dispatch(c, d),
         Clean(c.rip) => Window(c.rip) # <<>> /\ d.bytes = Window(c.rip)
  PROVE  BytesOK'
<1>1. run'.pc = "dispatch" /\ run'.decoded = d /\ run'.rip_pre = c.rip
  BY DispatchFields DEF Base, Shape
<1>2. Ahead' /\ DispatchBytes'
  BY <1>1 DEF Ahead, Prefetching, DispatchBytes, Clean, Window
<1> QED
  BY <1>2, BytesFrame

LEMMA LoopBytes ==
  ASSUME Base, BytesOK, LoopHead \/ PreHooksReturn
  PROVE  BytesOK'
<1>1. CASE LoopHead
  <2>1. /\ UNCHANGED <<cpu, mem, icache, dirty>>
        /\ \/ run' = Idle("ok")
           \/ run'.plain = run.plain /\ run.plain /\ run'.pc = "step" /\ run'.bytes = <<>>
           \/ /\ run'.plain = run.plain /\ ~run.plain /\ run'.pc \in {"pre", "lookup"}
              /\ run'.address = cpu.rip /\ run'.bytes = <<>>
    BY <1>1, LoopHeadEffect
  <2>2. CASE run' = Idle("ok")
    BY <2>1, <2>2, IdleType, ResultsType, BytesQuiet
  <2>3. CASE run' # Idle("ok")
    <3>1. run'.bytes = <<>> /\ Len(run'.bytes) # 2
      BY <2>1, <2>3
    <3>2. Ahead' /\ DispatchBytes'
      BY <2>1, <2>3, <3>1 DEF Ahead, Prefetching, DispatchBytes
    <3> QED
      BY <2>1, <3>2, BytesFrame
  <2> QED
    BY <2>2, <2>3
<1>2. CASE PreHooksReturn
  <2>1. /\ run.pc = "pre" /\ run'.pc = "lookup"
        /\ run'.plain = run.plain /\ run'.address = run.address /\ run'.bytes = run.bytes
        /\ UNCHANGED <<cpu, mem, icache, dirty>>
    BY <1>2, PreHooksReturnEffect
  <2>2. Ahead' /\ DispatchBytes'
    BY <2>1 DEF Ahead, Prefetching, DispatchBytes, BytesOK
  <2> QED
    BY <2>1, <2>2, BytesFrame
<1> QED
  BY <1>1, <1>2

LEMMA LookupBytes ==
  ASSUME Base, BytesOK, LookupAddress
  PROVE  BytesOK'
<1> DEFINE c == PrimeModeKey(cpu)
<1>0. /\ cpu \in Contexts /\ mem \in Memories /\ c \in Contexts /\ c.rip = cpu.rip
      /\ run \in Runs /\ run.address \in Rips
  BY PrimeFields DEF Base, Shape, Runs
<1>1. /\ run.pc = "lookup" /\ ~run.plain /\ UNCHANGED <<mem, icache, dirty>>
      /\ \/ run' = Idle("ok")
         \/ cpu.exc # "none" /\ run' = Idle(cpu.exc)
         \/ LookupFast
         \/ LookupPrefetch
  BY LookupEffect
<1>2. cpu.rip = run.address
  BY <1>1 DEF BytesOK, Ahead
<1>3. CASE run' = Idle("ok") \/ (cpu.exc # "none" /\ run' = Idle(cpu.exc))
  BY <1>0, <1>1, <1>3, IdleType, ResultsType, BytesQuiet
<1>4. CASE LookupFast
  <2>1. Hit(run.address, ModeKey(cpu)) /\ Dispatch(c, icache[Index(run.address)].decoded)
    BY <1>4 DEF LookupFast
  <2>2. icache[Index(run.address)].decoded \in DecodedInsts
    BY <1>0, <2>1, HitFields
  <2>3. Clean(c.rip) => Window(c.rip) # <<>> /\ icache[Index(run.address)].decoded.bytes = Window(c.rip)
    BY <1>0, <1>2, <2>1, HitBytes DEF BytesOK
  <2> QED
    BY <1>0, <1>1, <2>1, <2>2, <2>3, DispatchedBytes
<1>5. CASE LookupPrefetch
  <2>1. /\ cpu' = c /\ run'.pc = "prefetch" /\ run'.bytes = <<>> /\ Len(run'.bytes) # 2
        /\ run'.plain = run.plain /\ run'.address = run.address
    BY <1>5 DEF LookupPrefetch
  <2>2. Ahead' /\ DispatchBytes'
    BY <1>0, <1>1, <1>2, <2>1 DEF Ahead, Prefetching, DispatchBytes
  <2> QED
    BY <1>1, <2>2, BytesFrame
<1> QED
  BY <1>1, <1>3, <1>4, <1>5

\* A unit is copied as memory holds it.
LEMMA PrefetchBytes ==
  ASSUME Base, BytesOK, PrefetchUnit \/ PrefetchEnds \/ PrefetchInvalid \/ InvalidHooksReturn
  PROVE  BytesOK'
<1>0. run \in Runs /\ mem \in Memories /\ run.bytes \in Windows /\ run.address \in Nat
  BY Numbers DEF Base, Shape, Runs
<1>1. PrefetchStep
  BY PrefetchEffect
<1>2. /\ run.pc \in {"prefetch", "invalid"} /\ run'.pc \in {"prefetch", "invalid", "classify"}
      /\ run'.plain = run.plain /\ run'.address = run.address /\ cpu'.rip = cpu.rip
      /\ UNCHANGED <<mem, icache, dirty>> /\ (run'.bytes = run.bytes \/ UnitTaken)
  BY <1>1 DEF PrefetchStep
<1>3. DispatchBytes' /\ (run'.plain \/ cpu'.rip = run'.address) /\ Prefetching
  BY <1>2 DEF DispatchBytes, BytesOK, Ahead, Prefetching
<1>4. CASE run'.bytes = run.bytes
  <2>1. Ahead'
    BY <1>2, <1>3, <1>4 DEF BytesOK, Ahead, Prefetching, Held
  <2> QED
    BY <1>2, <1>3, <2>1, BytesFrame
<1>5. CASE UnitTaken
  <2> DEFINE u == mem.code[NextUnit]
  <2>1. /\ Len(run.bytes) < 2 /\ NextUnit \in mem.exec /\ run'.bytes = Append(run.bytes, u)
    BY <1>5 DEF UnitTaken
  <2>2. u \in Opcodes
    BY <1>0, <2>1 DEF Memories
  <2>3. Held(NextUnit, u)
    BY <2>1 DEF Held
  <2> HIDE DEF u
  <2>4. CASE run.bytes = <<>>
    <3>1. Len(run'.bytes) = 1 /\ run'.bytes[1] = u /\ Len(run.bytes) = 0
      BY <1>0, <2>1, <2>2, <2>4, AppendWindow
    <3>2. NextUnit = run.address
      BY <1>0, <3>1 DEF NextUnit
    <3>3. Ahead'
      BY <1>2, <1>3, <2>3, <3>1, <3>2 DEF Ahead, Held
    <3> QED
      BY <1>2, <1>3, <3>3, BytesFrame
  <2>5. CASE run.bytes # <<>>
    <3>1. run'.bytes[1] = run.bytes[1] /\ run'.bytes[2] = u /\ Len(run.bytes) = 1
      BY <1>0, <2>1, <2>2, <2>5, AppendWindow
    <3>2. NextUnit = run.address + 1
      BY <3>1 DEF NextUnit
    <3>3. Held(run.address, run.bytes[1])
      BY <1>3, <2>5 DEF BytesOK, Ahead
    <3>4. Ahead'
      BY <1>2, <1>3, <2>3, <3>1, <3>2, <3>3 DEF Ahead, Held
    <3> QED
      BY <1>2, <1>3, <3>4, BytesFrame
  <2> QED
    BY <2>4, <2>5
<1> QED
  BY <1>2, <1>4, <1>5

LEMMA ClassifyBytes ==
  ASSUME Base, BytesOK, ClassifyEscape
  PROVE  BytesOK'
<1>1. run.pc = "classify" /\ UNCHANGED <<mem, icache, dirty>> /\ (ToEscape \/ ToStep \/ ToFault) /\ Base'
  BY ClassifyEffect
<1>2. CASE ToEscape
  BY <1>1, <1>2, BytesQuiet DEF ToEscape
<1>3. CASE ToStep
  <2>1. Ahead' /\ DispatchBytes'
    BY <1>1, <1>3 DEF ToStep, Ahead, Prefetching, Held, DispatchBytes, BytesOK
  <2> QED
    BY <1>1, <2>1, BytesFrame
<1>4. CASE ToFault
  <2>1. run'.pc = "idle"
    BY <1>4 DEF ToFault, Idle
  <2> QED
    BY <1>1, <2>1, BytesQuiet
<1> QED
  BY <1>1, <1>2, <1>3, <1>4

\* Filling a slot: the bytes are those at rip, prefetched there or fetched now.
LEMMA FillBytes ==
  ASSUME Base, BytesOK, run.pc = "step", UNCHANGED <<mem, dirty>>, StepFill
  PROVE  BytesOK'
<1> DEFINE c == StepContext
           d == Decode(StepBytes, StepContext.cs)
           e == [tag |-> c.rip, version |-> mem.version, mode |-> ModeKey(c), decoded |-> d]
<1>0. /\ c \in Contexts /\ c.rip = cpu.rip /\ c.cs = cpu.cs /\ StepBytes \in Windows
      /\ StepBytes # <<>> /\ Commit(c, d) /\ Dispatch(c, d) /\ c.cs \in Modes
      /\ c.rip \in Rips
  BY StepContextFields DEF StepFill, Contexts
<1>1. d \in DecodedInsts /\ d.bytes = StepBytes
  BY <1>0, DecodeFields
<1>2. Clean(cpu.rip) => StepBytes = Window(cpu.rip)
  <2>1. CASE run.bytes = <<>>
    BY <1>0, <2>1, StepContextFields
  <2>2. CASE run.bytes # <<>>
    <3>1. StepBytes = run.bytes /\ ~run.plain /\ cpu.exc = "none" /\ Prefetching
      BY <2>2 DEF StepBytes, StepFill, Base, FetchOK, Prefetching
    <3>2. Len(run.bytes) = 2 /\ cpu.rip = run.address
      BY <3>1 DEF Base, FetchOK, BytesOK, Ahead
    <3> QED
      BY <3>1, <3>2, HeldWindow DEF BytesOK, Base, Shape
  <2> QED
    BY <2>1, <2>2
<1>3. Index(c.rip) \in 0..CacheSlots-1 /\ icache \in [0..CacheSlots-1 -> SlotRecs]
  BY <1>0, Numbers, IndexType DEF Base, Shape
<1>4. icache' = [icache EXCEPT ![Index(c.rip)] = e]
  BY <1>0 DEF Commit
<1>5. /\ e.tag = cpu.rip
      /\ Clean(cpu.rip) => e.decoded.bytes = Window(cpu.rip) /\ Window(cpu.rip) # <<>>
  BY <1>0, <1>1, <1>2
<1>6. run'.pc = "dispatch" /\ run'.decoded = d /\ run'.rip_pre = c.rip
  BY <1>0, <1>1, DispatchFields DEF Base, Shape
<1> HIDE DEF c, d, e
<1>7. EntryBytes'
  <2> SUFFICES ASSUME NEW s \in DOMAIN icache', icache'[s].version = mem.version,
                      Clean(icache'[s].tag)
               PROVE  /\ Window(icache'[s].tag) # <<>>
                      /\ icache'[s].decoded.bytes = Window(icache'[s].tag)
    BY DEF EntryBytes, Clean, Window
  <2>1. s \in DOMAIN icache /\ (icache'[s] = e \/ icache'[s] = icache[s])
    BY <1>3, <1>4
  <2> QED
    BY <1>5, <2>1 DEF BytesOK, EntryBytes
<1>8. Ahead' /\ DispatchBytes'
  BY <1>0, <1>1, <1>2, <1>6 DEF Ahead, Prefetching, DispatchBytes, Clean, Window
<1> QED
  BY <1>7, <1>8 DEF BytesOK

LEMMA StepsBytes ==
  ASSUME Base, BytesOK, StepWithPrefetch
  PROVE  BytesOK'
<1>0. cpu \in Contexts /\ cpu.rip \in Rips /\ StepContext \in Contexts
  BY StepContextFields DEF Base, Shape, Contexts
<1>1. /\ run.pc = "step" /\ UNCHANGED <<mem, dirty>>
      /\ \/ cpu.exc # "none" /\ run' = Idle(cpu.exc) /\ UNCHANGED icache
         \/ StepHit
         \/ StepContext.exc # "none" /\ run' = Idle(StepContext.exc) /\ UNCHANGED icache
         \/ StepFill
  BY StepEffect
<1>2. CASE UNCHANGED icache /\ (run' = Idle(cpu.exc) \/ run' = Idle(StepContext.exc))
  <2>1. run'.pc = "idle"
    BY <1>2 DEF Idle
  <2> QED
    BY <1>1, <1>2, <2>1, BytesQuiet
<1>3. CASE StepHit
  <2>1. /\ Hit(cpu.rip, ModeKey(cpu)) /\ UNCHANGED icache
        /\ Dispatch(PrimeModeKey(cpu), icache[Index(cpu.rip)].decoded)
    BY <1>3 DEF StepHit
  <2>2. icache[Index(cpu.rip)].decoded \in DecodedInsts
    BY <1>0, <2>1, HitFields
  <2>3. PrimeModeKey(cpu) \in Contexts /\ PrimeModeKey(cpu).rip = cpu.rip
    BY <1>0, PrimeFields
  <2>4. Clean(cpu.rip) => Window(cpu.rip) # <<>> /\ icache[Index(cpu.rip)].decoded.bytes = Window(cpu.rip)
    BY <1>0, <2>1, HitBytes DEF BytesOK
  <2> QED
    BY <1>1, <2>1, <2>2, <2>3, <2>4, DispatchedBytes
<1>4. CASE StepFill
  BY <1>1, <1>4, FillBytes
<1> QED
  BY <1>1, <1>2, <1>3, <1>4

\* Where the other steps of the engine's thread leave the run.
LEMMA QuietPc ==
  ASSUME Base, \/ EscapeReturn \/ PostHooksReturn \/ NotifyFetchedBytes \/ FetchHooksReturn
               \/ ExecuteFlagged \/ Execute \/ NotifyWrite
  PROVE  /\ run'.pc \in {"idle", "loop", "post", "fetch", "execute", "write"}
         /\ UNCHANGED <<mem, icache, dirty>>
<1>0. run \in Runs
  BY DEF Base, Shape
<1>1. \A r : Idle(r).pc = "idle"
  BY DEF Idle
<1>2. AfterStep(run).pc \in {"loop", "post"}
  BY <1>0, AfterStepType
<1>3. CASE EscapeReturn
  BY <1>1, <1>2, <1>3, EscapeReturnEffect
<1>4. CASE PostHooksReturn \/ FetchHooksReturn \/ NotifyWrite \/ NotifyFetchedBytes
  BY <1>4, PostHooksReturnEffect, FetchHooksEffect, NotifyWriteEffect, NotifyEffect
<1>5. CASE ExecuteFlagged
  BY <1>1, <1>5, ExecuteFlaggedEffect
<1>6. CASE Execute
  BY <1>1, <1>2, <1>6, ExecuteEffect DEF FinishFaults, FinishDone
<1> QED
  BY <1>3, <1>4, <1>5, <1>6

LEMMA BytesStep ==
  ASSUME NoEarlyRip, Base, HostOK, BytesOK, [Next]_vars
  PROVE  BytesOK'
<1>1. CASE \E begin \in host.begins, until \in host.untils, count \in host.counts :
             EmuStart(begin, until, count)
  <2>1. run'.pc = "loop"
    BY <1>1, EmuStartEffect
  <2>2. UNCHANGED <<mem, icache, dirty>>
    BY <1>1 DEF EmuStart
  <2> QED
    BY <2>1, <2>2, BytesQuiet
<1>2. CASE \/ EscapeReturn \/ PostHooksReturn \/ NotifyFetchedBytes \/ FetchHooksReturn
           \/ ExecuteFlagged \/ Execute \/ NotifyWrite
  BY <1>2, QuietPc, BytesQuiet
<1>3. CASE LoopHead \/ PreHooksReturn \/ LookupAddress \/ ClassifyEscape \/ StepWithPrefetch
  BY <1>3, LoopBytes, LookupBytes, ClassifyBytes, StepsBytes
<1>4. CASE \E a \in StoreCells, v \in StoreOps : ExecuteStore(a, v)
  BY <1>4, StoreBytes
<1>5. CASE HostNext
  BY <1>5, HostBytes
<1>6. CASE EmuStop \/ UNCHANGED vars
  <2>1. UNCHANGED <<cpu, mem, icache, run, dirty>>
    BY <1>6 DEF EmuStop, vars
  <2> QED
    BY <2>1 DEF BytesOK, Ahead, Prefetching, Held, EntryBytes, DispatchBytes, Clean, Window
<1>7. CASE PrefetchUnit \/ PrefetchEnds \/ PrefetchInvalid \/ InvalidHooksReturn
  BY <1>7, PrefetchBytes
<1> QED
  BY <1>1, <1>2, <1>3, <1>4, <1>5, <1>6, <1>7 DEF Next, EngineNext

LEMMA BytesInvariant ==
  ASSUME NoEarlyRip
  PROVE  Spec => []BytesOK
<1>1. Init => BytesOK
  <2> SUFFICES ASSUME NEW setup \in Setups, InitWith(setup) PROVE BytesOK
    BY DEF Init
  <2>1. run.pc = "idle" /\ mem.version = 1 /\ \A s \in DOMAIN icache : icache[s].version = 0
    BY DEF InitWith, Idle, EmptySlot
  <2> QED
    BY <2>1 DEF BytesOK, Ahead, Prefetching, EntryBytes, DispatchBytes
<1>2. Base /\ HostOK /\ BytesOK /\ [Next]_vars => BytesOK'
  BY BytesStep
<1> QED
  BY <1>1, <1>2, BaseInvariant, HostInvariant, PTL DEF Spec

-----------------------------------------------------------------------------
(* The mode behind the cache and the dispatch                              *)

\* What decoding some bytes in mode m gives.
DecodedIn(m) == {Decode(b, m) : b \in Windows \ {<<>>}}

\* Every entry was decoded in the mode its key names, and what is dispatched in the
\* mode of CS.
ModesOK ==
  /\ \A s \in DOMAIN icache : Filled(icache[s]) => icache[s].decoded \in DecodedIn(icache[s].mode)
  /\ run.pc = "dispatch" => run.decoded \in DecodedIn(cpu.cs)

LEMMA ModeOfKey ==
  ASSUME ModeKeyCurrent
  PROVE  ModeKey(cpu) = cpu.cs
  BY DEF ModeKeyCurrent, ModeKey

\* A dispatch from a hit: the entry's mode is the key, and the key is current.
LEMMA HitModes ==
  ASSUME Base, ModeKeyCurrent, ModesOK, UNCHANGED <<mem, icache>>, NEW r \in Rips,
         Hit(r, ModeKey(cpu)), cpu' = PrimeModeKey(cpu),
         Dispatch(PrimeModeKey(cpu), icache[Index(r)].decoded)
  PROVE  ModesOK'
<1>0. cpu \in Contexts /\ PrimeModeKey(cpu) \in Contexts /\ PrimeModeKey(cpu).cs = cpu.cs
  BY PrimeFields DEF Base, Shape
<1>1. /\ Index(r) \in DOMAIN icache /\ icache[Index(r)].version = mem.version
      /\ icache[Index(r)].mode = ModeKey(cpu) /\ icache[Index(r)].decoded \in DecodedInsts
  BY HitFields
<1>2. mem.version # 0
  BY DEF Base, Shape, Memories
<1>3. run'.pc = "dispatch" /\ run'.decoded = icache[Index(r)].decoded
  BY <1>0, <1>1, DispatchFields DEF Base, Shape
<1>4. icache[Index(r)].decoded \in DecodedIn(cpu.cs)
  BY <1>1, <1>2, ModeOfKey DEF ModesOK, Filled
<1>5. \A s \in DOMAIN icache : Filled(icache[s]) => icache[s].decoded \in DecodedIn(icache[s].mode)
  BY DEF ModesOK
<1> QED
  BY <1>0, <1>3, <1>4, <1>5 DEF ModesOK, Filled

LEMMA FillModes ==
  ASSUME Base, ModeKeyCurrent, ModesOK, UNCHANGED mem, StepFill
  PROVE  ModesOK'
<1> DEFINE c == StepContext
           d == Decode(StepBytes, StepContext.cs)
           e == [tag |-> c.rip, version |-> mem.version, mode |-> ModeKey(c), decoded |-> d]
<1>0. /\ c \in Contexts /\ c.rip = cpu.rip /\ c.cs = cpu.cs /\ StepBytes \in Windows
      /\ c.key = [valid |-> TRUE, bits |-> ModeKey(cpu)]
      /\ StepBytes # <<>> /\ Commit(c, d) /\ Dispatch(c, d) /\ cpu' = c /\ c.cs \in Modes
      /\ c.rip \in Rips
  BY StepContextFields DEF StepFill, Contexts
<1>1. d \in DecodedInsts /\ d \in DecodedIn(cpu.cs)
  BY <1>0, DecodeFields DEF DecodedIn
<1>2. ModeKey(c) = cpu.cs
  <2>1. c.key.valid /\ c.key.bits = cpu.cs
    BY <1>0, ModeOfKey
  <2> QED
    BY <2>1 DEF ModeKey
<1>3. Index(c.rip) \in 0..CacheSlots-1 /\ icache \in [0..CacheSlots-1 -> SlotRecs]
  BY <1>0, Numbers, IndexType DEF Base, Shape
<1>4. icache' = [icache EXCEPT ![Index(c.rip)] = e]
  BY <1>0 DEF Commit
<1>5. e.mode = cpu.cs /\ e.decoded = d
  BY <1>2
<1>6. run'.pc = "dispatch" /\ run'.decoded = d
  BY <1>0, <1>1, DispatchFields DEF Base, Shape
<1> HIDE DEF c, d, e
<1>7. ASSUME NEW s \in DOMAIN icache', Filled(icache'[s])
      PROVE  icache'[s].decoded \in DecodedIn(icache'[s].mode)
  <2>1. s \in DOMAIN icache /\ (icache'[s] = e \/ icache'[s] = icache[s])
    BY <1>3, <1>4, <1>7
  <2>2. CASE icache'[s] = e
    BY <1>1, <1>5, <2>2
  <2>3. CASE icache'[s] = icache[s]
    BY <1>7, <2>1, <2>3 DEF ModesOK
  <2> QED
    BY <2>1, <2>2, <2>3
<1>8. run'.decoded \in DecodedIn(cpu'.cs)
  BY <1>0, <1>1, <1>6
<1> QED
  BY <1>7, <1>8 DEF ModesOK, Filled

LEMMA ModesQuiet ==
  ASSUME ModesOK, UNCHANGED icache, run'.pc # "dispatch"
  PROVE  ModesOK'
  BY DEF ModesOK, Filled

LEMMA ModesStep ==
  ASSUME Base, ModeKeyCurrent, ModesOK, [Next]_vars
  PROVE  ModesOK'
<1>0. run \in Runs /\ cpu \in Contexts /\ cpu.rip \in Rips /\ run.address \in Rips
  BY DEF Base, Shape, Contexts, Runs
<1>1. CASE \E begin \in host.begins, until \in host.untils, count \in host.counts :
             EmuStart(begin, until, count)
  <2>1. run'.pc = "loop" /\ UNCHANGED icache
    BY <1>1, EmuStartEffect DEF EmuStart
  <2> QED
    BY <2>1, ModesQuiet
<1>2. CASE \/ EscapeReturn \/ PostHooksReturn \/ NotifyFetchedBytes \/ FetchHooksReturn
           \/ ExecuteFlagged \/ Execute \/ NotifyWrite
  BY <1>2, QuietPc, ModesQuiet
<1>3. CASE LoopHead \/ PreHooksReturn \/ ClassifyEscape
  <2>1. UNCHANGED icache
    BY <1>3 DEF LoopHead, PreHooksReturn, ClassifyEscape
  <2>2. run'.pc # "dispatch"
    BY <1>3, LoopHeadEffect, PreHooksReturnEffect, ClassifyEffect DEF Idle, ToEscape, ToStep, ToFault
  <2> QED
    BY <2>1, <2>2, ModesQuiet
<1>4. CASE LookupAddress
  <2>1. UNCHANGED <<mem, icache>> /\ (LookupFast \/ run'.pc # "dispatch")
    BY <1>4, LookupEffect DEF LookupPrefetch, Idle
  <2> QED
    BY <1>0, <2>1, HitModes, ModesQuiet DEF LookupFast
<1>5. CASE StepWithPrefetch
  <2>1. /\ UNCHANGED mem
        /\ StepHit \/ StepFill \/ (run'.pc # "dispatch" /\ UNCHANGED icache)
    BY <1>5, StepEffect DEF Idle
  <2> QED
    BY <1>0, <2>1, HitModes, FillModes, ModesQuiet DEF StepHit
<1>6. CASE \E a \in StoreCells, v \in StoreOps : ExecuteStore(a, v)
  <2>1. UNCHANGED icache
    BY <1>6 DEF ExecuteStore
  <2>2. run'.pc # "dispatch"
    BY <1>0, <1>6, ExecuteStoreEffect, AfterStepType DEF FinishFaults, FinishDone, Idle
  <2> QED
    BY <2>1, <2>2, ModesQuiet
<1>7. CASE HostNext
  <2>1. PICK kind \in CallKinds : HostCall(kind)
    BY <1>7, HostEffects DEF HostEffect
  <2>2. run.pc \in Sites /\ UNCHANGED <<icache, run>>
    BY <2>1, HostCallFields
  <2> QED
    BY <2>2, ModesQuiet DEF Sites
<1>8. CASE EmuStop \/ UNCHANGED vars
  BY <1>8 DEF EmuStop, vars, ModesOK, Filled
<1>9. CASE PrefetchUnit \/ PrefetchEnds \/ PrefetchInvalid \/ InvalidHooksReturn
  BY <1>9, PrefetchEffect, ModesQuiet DEF PrefetchStep
<1> QED
  BY <1>1, <1>2, <1>3, <1>4, <1>5, <1>6, <1>7, <1>8, <1>9 DEF Next, EngineNext

LEMMA ModesInvariant ==
  ASSUME NoCsCall
  PROVE  Spec => []ModesOK
<1>1. Init => ModesOK
  BY DEF Init, InitWith, ModesOK, Filled, EmptySlot, Idle
<1>2. Base /\ ModeKeyCurrent /\ ModesOK /\ [Next]_vars => ModesOK'
  BY ModesStep
<1> QED
  BY <1>1, <1>2, BaseInvariant, ModeKeyValid, PTL DEF Spec

\* Decoding keeps the bytes, so bytes and mode determine the instruction.
LEMMA DecodedByBytes ==
  ASSUME NEW m \in Modes, NEW d \in DecodedIn(m)
  PROVE  d = Decode(d.bytes, m)
<1>1. PICK b \in Windows \ {<<>>} : d = Decode(b, m)
  BY DEF DecodedIn
<1>2. d.bytes = b
  BY <1>1, DecodeFields
<1> QED
  BY <1>1, <1>2

\* inst_cache.hpp, cpu_inst_cache_lookup: if no call writes CS behind the mode key and no
\* hook before or during the prefetch writes rip, an entry of the current code_version is
\* what decoding the bytes at its tag in its mode gives now.  Excepted are bytes that since
\* the last bump the guest stored into, or that a MEM_FETCH_UNMAPPED or _PROT hook rewrote
\* or protected after the prefetch that called it had copied them; whatever else such a
\* hook changes is seen.  The records of loop, step and cache keep their shape (that part
\* needs no condition).
THEOREM CacheEntriesSound ==
  ASSUME NoCsCall, NoEarlyRip
  PROVE  Spec => []CacheSound
<1>1. Base /\ BytesOK /\ ModesOK => CacheEntriesCurrent
  <2> SUFFICES ASSUME Base, BytesOK, ModesOK, NEW s \in DOMAIN icache,
                      icache[s].version = mem.version, Clean(icache[s].tag)
               PROVE  /\ Window(icache[s].tag) # <<>>
                      /\ icache[s].decoded = Decode(Window(icache[s].tag), icache[s].mode)
    BY DEF CacheEntriesCurrent
  <2>1. Window(icache[s].tag) # <<>> /\ icache[s].decoded.bytes = Window(icache[s].tag)
    BY DEF BytesOK, EntryBytes
  <2>2. mem.version # 0 /\ icache[s].mode \in Modes
    BY DEF Base, Shape, Memories, SlotRecs
  <2>3. icache[s].decoded \in DecodedIn(icache[s].mode)
    BY <2>2 DEF ModesOK, Filled
  <2> QED
    BY <2>1, <2>2, <2>3, DecodedByBytes
<1>2. Base /\ BytesOK /\ ModesOK => CacheSound
  BY <1>1, BaseType DEF CacheSound
<1> QED
  BY <1>2, BaseInvariant, BytesInvariant, ModesInvariant, PTL

\* executor.hpp, cpu_step_decoded and cpu_step_with_prefetch: under the same conditions and
\* with the same exception the instruction that is dispatched is the one the bytes at rip
\* encode in the current mode, whatever was cached, evicted, rewritten or remapped before,
\* from a hook in the middle of its own prefetch too.
THEOREM DispatchesCurrent ==
  ASSUME NoCsCall, NoEarlyRip
  PROVE  Spec => []DispatchCurrent
<1>1. Base /\ BytesOK /\ ModesOK => DispatchCurrent
  <2> SUFFICES ASSUME Base, BytesOK, ModesOK, run.pc = "dispatch", Clean(run.rip_pre)
               PROVE  /\ Window(run.rip_pre) # <<>>
                      /\ run.decoded = Decode(Window(run.rip_pre), cpu.cs)
    BY DEF DispatchCurrent
  <2>1. Window(run.rip_pre) # <<>> /\ run.decoded.bytes = Window(run.rip_pre)
    BY DEF BytesOK, DispatchBytes
  <2>2. cpu.cs \in Modes /\ run.decoded \in DecodedIn(cpu.cs)
    BY DEF Base, Shape, Contexts, ModesOK
  <2> QED
    BY <2>1, <2>2, DecodedByBytes
<1> QED
  BY <1>1, BaseInvariant, BytesInvariant, ModesInvariant, PTL

-----------------------------------------------------------------------------
(* Escapes                                                                 *)

\* Between the classification and the step the class of the prefetched bytes has no
\* callback.
ClassifiedOK ==
  run.pc = "step" /\ ~run.plain => EscapeClass(run.bytes) \notin eng.escapes

\* cpu_decoder_is_escape_candidate_opc: an entry marked KNOWN_NOT_ESCAPE has no escape
\* class.
LEMMA KnownNotEscape ==
  ASSUME NEW d \in DecodeResults, "KNOWN_NOT_ESCAPE" \in d.flags
  PROVE  EscapeClass(d.bytes) = "none"
<1>1. PICK b \in Windows \ {<<>>}, m \in Modes : d = Decode(b, m)
  BY DEF DecodeResults
<1>2. /\ d.bytes = b /\ d.flags = Flags(d.op)
      /\ d.op = (IF Size(b[1]) > Len(b) THEN "short" ELSE Selected(b[1], m))
  BY <1>1, DecodeFields
<1>3. d.op \notin EscapeCandidates
  BY <1>2 DEF Flags
<1>4. Len(b) \in {1, 2}
  BY <1>1, WindowsNonempty
<1>5. b[1] \notin EscapeClasses
  <2> SUFFICES ASSUME b[1] \in EscapeClasses PROVE FALSE
    OBVIOUS
  <2>1. Size(b[1]) = 1 /\ Selected(b[1], m) = b[1]
    BY DEF EscapeClasses, Size, Selected
  <2>2. d.op = b[1]
    BY <1>2, <1>4, <2>1
  <2> QED
    BY <1>3, <2>2 DEF EscapeCandidates
<1> QED
  BY <1>2, <1>5 DEF EscapeClass

LEMMA EscapesQuiet ==
  ASSUME run'.pc \notin {"step", "dispatch"}
  PROVE  ClassifiedOK' /\ EscapesHonoured'
  BY DEF ClassifiedOK, EscapesHonoured

\* A step with prefetched bytes dispatches these bytes, or an entry that holds them.
LEMMA StepEscapes ==
  ASSUME Base, BytesOK, BytesOK', ClassifiedOK, StepWithPrefetch
  PROVE  ClassifiedOK' /\ EscapesHonoured'
<1>0. cpu \in Contexts /\ cpu.rip \in Rips /\ run \in Runs
  BY DEF Base, Shape, Contexts
<1>1. /\ run.pc = "step" /\ UNCHANGED <<mem, eng, dirty>>
      /\ StepHit \/ StepFill \/ run'.pc = "idle"
  BY StepEffect DEF Idle
<1>2. CASE StepHit
  <2> DEFINE c == PrimeModeKey(cpu)
             d == icache[Index(cpu.rip)].decoded
  <2>1. Hit(cpu.rip, ModeKey(cpu)) /\ Dispatch(c, d) /\ cpu.exc = "none"
    BY <1>2 DEF StepHit
  <2>2. d \in DecodedInsts /\ c \in Contexts /\ c.rip = cpu.rip
    BY <1>0, <2>1, HitFields, PrimeFields
  <2>3. run'.pc = "dispatch" /\ run'.decoded = d /\ run'.rip_pre = cpu.rip /\ run'.plain = run.plain
    BY <1>0, <2>1, <2>2, DispatchFields
  <2> HIDE DEF c, d
  <2>4. ASSUME ~run.plain, Clean(cpu.rip) PROVE EscapeClass(d.bytes) \notin eng.escapes
    <3>1. d.bytes = Window(cpu.rip)
      BY <1>0, <2>1, <2>4, HitBytes DEF BytesOK, d
    <3>2. Prefetching /\ cpu.rip = run.address /\ Len(run.bytes) = 2
      BY <1>1, <2>1, <2>4 DEF Base, FetchOK, BytesOK, Ahead, Prefetching
    <3>3. run.bytes = Window(cpu.rip)
      BY <1>0, <2>4, <3>2, HeldWindow DEF BytesOK
    <3> QED
      BY <1>1, <2>4, <3>1, <3>3 DEF ClassifiedOK
  <2> QED
    BY <1>1, <2>3, <2>4 DEF ClassifiedOK, EscapesHonoured, Clean
<1>3. CASE StepFill
  <2> DEFINE c == StepContext
             d == Decode(StepBytes, StepContext.cs)
  <2>1. /\ c \in Contexts /\ c.cs \in Modes /\ StepBytes \in Windows /\ StepBytes # <<>>
        /\ Dispatch(c, d) /\ cpu.exc = "none"
    BY <1>3, StepContextFields DEF StepFill, Contexts
  <2>2. d \in DecodedInsts /\ d.bytes = StepBytes
    BY <2>1, DecodeFields
  <2>3. run'.pc = "dispatch" /\ run'.decoded = d /\ run'.plain = run.plain
    BY <1>0, <2>1, <2>2, DispatchFields
  <2> HIDE DEF c, d
  <2>4. ~run.plain => run.bytes # <<>>
    BY <1>1, <2>1 DEF Base, FetchOK
  <2>5. ~run.plain => EscapeClass(d.bytes) \notin eng.escapes
    BY <1>1, <2>2, <2>4 DEF ClassifiedOK, StepBytes
  <2> QED
    BY <1>1, <2>3, <2>5 DEF ClassifiedOK, EscapesHonoured
<1> QED
  BY <1>1, <1>2, <1>3, EscapesQuiet

LEMMA LookupEscapes ==
  ASSUME Base, LookupAddress
  PROVE  ClassifiedOK' /\ EscapesHonoured'
<1> DEFINE c == PrimeModeKey(cpu)
<1>0. /\ cpu \in Contexts /\ mem \in Memories /\ run \in Runs /\ run.address \in Rips
      /\ c \in Contexts /\ eng.escapes \subseteq EscapeClasses
  BY PrimeFields DEF Base, Shape, Runs, Engines
<1>1. UNCHANGED eng /\ (LookupFast \/ run'.pc \in {"prefetch", "idle"})
  BY LookupEffect DEF Idle, LookupPrefetch
<1>2. CASE LookupFast
  <2> DEFINE d == icache[Index(run.address)].decoded
  <2>1. Hit(run.address, ModeKey(cpu)) /\ Dispatch(c, d) /\ "KNOWN_NOT_ESCAPE" \in d.flags
    BY <1>2 DEF LookupFast
  <2>2. d \in DecodedInsts /\ d \in DecodeResults
    BY <1>0, <2>1, HitFields
  <2>3. run'.pc = "dispatch" /\ run'.decoded = d
    BY <1>0, <2>1, <2>2, DispatchFields
  <2> HIDE DEF d
  <2>4. EscapeClass(d.bytes) \notin eng.escapes
    BY <1>0, <2>1, <2>2, KnownNotEscape DEF EscapeClasses
  <2> QED
    BY <1>1, <2>3, <2>4 DEF ClassifiedOK, EscapesHonoured
<1> QED
  BY <1>1, <1>2, EscapesQuiet

LEMMA EscapesStep ==
  ASSUME Base, BytesOK, BytesOK', ClassifiedOK, EscapesHonoured, [Next]_vars
  PROVE  ClassifiedOK' /\ EscapesHonoured'
<1>0. run \in Runs
  BY DEF Base, Shape
<1>1. CASE \E begin \in host.begins, until \in host.untils, count \in host.counts :
             EmuStart(begin, until, count)
  BY <1>1, EmuStartEffect, EscapesQuiet
<1>2. CASE \/ EscapeReturn \/ PostHooksReturn \/ NotifyFetchedBytes \/ FetchHooksReturn
           \/ ExecuteFlagged \/ Execute \/ NotifyWrite
  BY <1>2, QuietPc, EscapesQuiet
<1>3. CASE LoopHead
  <2>1. \/ run'.pc \in {"idle", "pre", "lookup"}
        \/ run'.pc = "step" /\ run'.plain
    BY <1>3, LoopHeadEffect DEF Idle
  <2> QED
    BY <2>1 DEF ClassifiedOK, EscapesHonoured
<1>4. CASE PreHooksReturn
  BY <1>4, PreHooksReturnEffect, EscapesQuiet
<1>5. CASE ClassifyEscape
  <2>1. run.pc = "classify" /\ UNCHANGED eng /\ (run'.pc \in {"escape", "idle"} \/ ToStep)
    BY <1>5, ClassifyEffect DEF Idle, ToEscape, ToFault
  <2>2. CASE ToStep
    BY <2>1, <2>2 DEF ToStep, ClassifiedOK, EscapesHonoured
  <2> QED
    BY <2>1, <2>2, EscapesQuiet
<1>6. CASE LookupAddress \/ StepWithPrefetch
  BY <1>6, LookupEscapes, StepEscapes
<1>7. CASE \E a \in StoreCells, v \in StoreOps : ExecuteStore(a, v)
  <2>1. run'.pc \in {"idle", "loop", "post"}
    BY <1>0, <1>7, ExecuteStoreEffect, AfterStepType DEF FinishFaults, FinishDone, Idle
  <2> QED
    BY <2>1, EscapesQuiet
<1>8. CASE HostNext
  <2>1. PICK kind \in CallKinds : HostCall(kind)
    BY <1>8, HostEffects DEF HostEffect
  <2>2. run.pc \in Sites /\ UNCHANGED run
    BY <2>1, HostCallFields
  <2> QED
    BY <2>2, EscapesQuiet DEF Sites
<1>9. CASE EmuStop \/ UNCHANGED vars
  <2>1. UNCHANGED <<run, cpu, dirty>> /\ eng'.escapes = eng.escapes
    BY <1>9, EmuStopEffect DEF vars
  <2> QED
    BY <2>1 DEF ClassifiedOK, EscapesHonoured, Clean
<1>10. CASE PrefetchUnit \/ PrefetchEnds \/ PrefetchInvalid \/ InvalidHooksReturn
  BY <1>10, PrefetchEffect, EscapesQuiet DEF PrefetchStep
<1> QED
  BY <1>1, <1>2, <1>3, <1>4, <1>5, <1>6, <1>7, <1>8, <1>9, <1>10 DEF Next, EngineNext

\* cpueaxh.cpp, cpueaxh_emu_start: unless a hook before or during the prefetch writes rip,
\* an instruction whose class has a registered escape is handed to the callback and never dispatched, whatever
\* earlier runs cached and whichever escapes were added or removed since, in any mode.
THEOREM EscapesTaken ==
  ASSUME NoEarlyRip
  PROVE  Spec => []EscapesHonoured
<1>1. Init => ClassifiedOK /\ EscapesHonoured
  BY DEF Init, InitWith, Idle, ClassifiedOK, EscapesHonoured
<1>2. /\ Base /\ BytesOK /\ BytesOK' /\ ClassifiedOK /\ EscapesHonoured /\ [Next]_vars
      => ClassifiedOK' /\ EscapesHonoured'
  BY EscapesStep
<1> QED
  BY <1>1, <1>2, BaseInvariant, BytesInvariant, PTL DEF Spec

-----------------------------------------------------------------------------
(* The end of a step                                                       *)

\* A step that leaves the handler: an entry that raises, or cpu_step_finish with the
\* context c that the handler, or the store, left.
Handled(c) ==
  /\ Follows(c, cpu, run.decoded.op) \/ (c.last = 1 /\ run.decoded.op = "store")
  /\ c.exc = cpu.exc \/ c.exc \in {"gp", "pf_data"}
  /\ run.decoded.op # "sse" => c.vec = run.entry[1].vec
  /\ FinishFaults(c) \/ FinishDone(c)

\* The only steps that leave "execute" and "write" for another part of the loop.
LEMMA EndOfStep ==
  ASSUME Base, [Next]_vars, run.pc \in {"execute", "write"}, run'.pc \notin {"execute", "write"}
  PROVE  /\ run.entry[1] \in Contexts
         /\ ExecuteFlagged \/ \E c \in Contexts : Handled(c)
<1>0. run \in Runs /\ StepOK /\ cpu \in Contexts
  BY DEF Base, Shape
<1>1. run.entry[1] \in Contexts
  BY <1>0, SnapshotFields DEF StepOK, Runs
<1>2. CASE Execute
  <2>1. run.entry[1] = cpu
    BY <1>2, ExecuteEffect
  <2> QED
    BY <1>1, <1>2, <2>1, ExecuteEffect DEF Handled, Follows
<1>3. CASE \E a \in StoreCells, v \in StoreOps : ExecuteStore(a, v)
  <2>1. PICK c \in Contexts : /\ c.vec = cpu.vec /\ c.exc = cpu.exc /\ c.last = 1
                              /\ FinishFaults(c) \/ FinishDone(c)
    BY <1>3, ExecuteStoreEffect
  <2>2. run.decoded.op = "store"
    BY <1>3 DEF ExecuteStore
  <2>3. run.entry[1].vec = cpu.vec
    BY <1>0 DEF StepOK
  <2> QED
    BY <1>1, <2>1, <2>2, <2>3 DEF Handled
<1>4. ~NotifyWrite
  BY DEF NotifyWrite, Runs, Base, Shape
<1>5. ~HostNext /\ ~EmuStop /\ ~UNCHANGED vars
  <2>1. UNCHANGED run => FALSE
    OBVIOUS
  <2>2. HostNext => UNCHANGED run
    BY HostEffects, HostCallFields DEF HostEffect
  <2> QED
    BY <2>1, <2>2 DEF EmuStop, vars
<1>6. ASSUME ~ExecuteFlagged, ~Execute,
             ~\E a \in StoreCells, v \in StoreOps : ExecuteStore(a, v)
      PROVE  FALSE
  BY <1>4, <1>5, <1>6 DEF Next, EngineNext, EmuStart, LoopHead, PreHooksReturn, LookupAddress,
     PrefetchUnit, PrefetchEnds, PrefetchInvalid, InvalidHooksReturn, ClassifyEscape, EscapeReturn, PostHooksReturn, StepWithPrefetch, NotifyFetchedBytes,
     FetchHooksReturn
<1> QED
  BY <1>1, <1>2, <1>3, <1>6

\* The instructions without a snapshot do not fault: no exception is pending when they
\* start, and XADD m, r is not taken for one of them.
SnapshotTaken ==
  run.pc \in {"execute", "write"} /\ "NO_FAULT" \in run.decoded.flags =>
    run.entry[1].exc = "none" /\ run.decoded.op # "xadd"

LEMMA FaultStep ==
  ASSUME Base, SnapshotTaken, [Next]_vars, Faulted, "PARTIAL_PROGRESS" \notin run.decoded.flags
  PROVE  \A f \in {"rip", "gpr", "vec", "cs"} : cpu'[f] = run.entry[1][f]
<1> DEFINE snap == run.entry[1]
           flags == run.decoded.flags
<1>0. run.pc \in {"execute", "write"} /\ run'.pc = "idle" /\ cpu'.exc # "none" /\ Stepping
  BY DEF Faulted, Stepping
<1>1. snap \in Contexts /\ (ExecuteFlagged \/ \E c \in Contexts : Handled(c)) /\ cpu \in Contexts
  BY <1>0, EndOfStep DEF Base, Shape
<1>2. CASE ExecuteFlagged
  <2>1. snap = cpu
    BY <1>2 DEF Base, StepOK, ExecuteFlagged
  <2>2. cpu' = Raise(cpu, "bp") \/ cpu' = Raise(cpu, "ud")
    BY <1>2, ExecuteFlaggedEffect
  <2>3. {"bp", "ud"} \subseteq Faults
    BY DEF Faults
  <2>4. cpu'.rip = cpu.rip /\ cpu'.gpr = cpu.gpr /\ cpu'.vec = cpu.vec /\ cpu'.cs = cpu.cs
    BY <1>1, <2>2, <2>3, RaiseFields
  <2> QED
    BY <2>1, <2>4
<1>3. ASSUME NEW c \in Contexts, Handled(c)
      PROVE  \A f \in {"rip", "gpr", "vec", "cs"} : cpu'[f] = run.entry[1][f]
  <2>1. c.exc # "none" /\ cpu' = Restored(c, snap, flags)
    BY <1>0, <1>3 DEF Handled, FinishFaults, FinishDone
  <2>2. flags = Flags(run.decoded.op)
    BY <1>0, SteppingDecoded
  <2>3. "NO_FAULT" \notin flags
    <3> SUFFICES ASSUME "NO_FAULT" \in flags PROVE FALSE
      OBVIOUS
    <3>1. snap.exc = "none" /\ run.decoded.op # "xadd"
      BY <1>0 DEF SnapshotTaken
    <3>2. run.decoded.op \in NoFaultOps
      BY <2>2 DEF Flags
    <3>3. run.decoded.op \in {"alu", "lea", "x40", "inc40", "rdssp", "nop1e"}
      BY <3>1, <3>2 DEF NoFaultOps
    <3>4. c.exc = cpu.exc
      BY <1>3, <3>3 DEF Handled, Follows
    <3>5. run.pc = "execute"
      <4>1. run.pc = "write" => run.decoded.op = "store"
        BY DEF Base, StepOK
      <4> QED
        BY <1>0, <3>3, <4>1
    <3>6. snap = cpu
      BY <3>5 DEF Base, StepOK
    <3> QED
      BY <2>1, <3>1, <3>4, <3>6
  <2>4. flags \cap {"NO_FAULT", "PARTIAL_PROGRESS"} = {}
    BY <2>3
  <2>5. /\ cpu'.rip = snap.rip /\ cpu'.gpr = snap.gpr /\ cpu'.cs = snap.cs
        /\ cpu'.vec = IF "TOUCHES_VECTOR" \in flags THEN snap.vec ELSE c.vec
    <3> HIDE DEF snap, flags
    <3>1. /\ Restored(c, snap, flags).rip = snap.rip /\ Restored(c, snap, flags).gpr = snap.gpr
          /\ Restored(c, snap, flags).cs = snap.cs
          /\ Restored(c, snap, flags).vec = IF "TOUCHES_VECTOR" \in flags THEN snap.vec ELSE c.vec
      BY <1>1, <2>4, RestoredFields
    <3> QED
      BY <2>1, <3>1
  <2>6. run.decoded.op = "sse" => "TOUCHES_VECTOR" \in flags
    BY <2>2 DEF Flags
  <2>7. run.decoded.op # "sse" => c.vec = snap.vec
    BY <1>3 DEF Handled
  <2>8. cpu'.vec = snap.vec
    BY <2>5, <2>6, <2>7
  <2> QED
    BY <2>5, <2>8
<1> QED
  BY <1>1, <1>2, <1>3

\* executor.hpp, cpu_step_finish: as long as instructions classified as NO_FAULT start
\* without a pending exception (and XADD is not among them), a fault leaves registers,
\* vector state, CS and rip as they were when the handler started, whatever MEM_WRITE
\* hooks changed in between; only REP strings keep the iterations they completed.
THEOREM FaultsAtomic == Spec /\ []SnapshotTaken => FaultAtomic
<1>1. Base /\ SnapshotTaken /\ [Next]_vars =>
        [Faulted /\ "PARTIAL_PROGRESS" \notin run.decoded.flags =>
           \A f \in {"rip", "gpr", "vec", "cs"} : cpu'[f] = run.entry[1][f]]_vars
  BY FaultStep
<1> QED
  BY <1>1, BaseInvariant, PTL DEF Spec, FaultAtomic

\* 0F 1E is not executed: it has no handler, so nobody sets last_inst_size for it.
HandlersOnly == run.pc = "execute" => run.decoded.op # "nop1e"

LEMMA AdvanceStep ==
  ASSUME Base, HandlersOnly, [Next]_vars, Completed, "BRANCH" \notin run.decoded.flags
  PROVE  cpu'.rip = run.rip_pre + Size(run.decoded.bytes[1])
<1> DEFINE op == run.decoded.op
<1>0. run.pc \in {"execute", "write"} /\ run'.pc \in {"loop", "post"} /\ Stepping
  BY DEF Completed, Stepping
<1>1. ExecuteFlagged \/ \E c \in Contexts : Handled(c)
  BY <1>0, EndOfStep
<1>2. ~ExecuteFlagged
  BY <1>0, ExecuteFlaggedEffect DEF Idle
<1>3. PICK c \in Contexts : Handled(c)
  BY <1>1, <1>2
<1>4. c.exc = "none" /\ cpu'.rip = run.rip_pre + c.last
  BY <1>0, <1>3 DEF Handled, FinishFaults, FinishDone, Idle
<1>5. PICK b \in Windows, m \in Modes :
        /\ run.decoded.bytes = b
        /\ op = (IF Size(b[1]) > Len(b) THEN "short" ELSE Selected(b[1], m))
  BY <1>0, SteppingDecoded
<1>6. op # "nop1e"
  BY <1>0 DEF HandlersOnly, Base, StepOK
<1>7. c.last = Size(op) /\ op # "short"
  BY <1>3, <1>4, <1>6 DEF Handled, Follows, Size
<1>8. Size(op) = Size(b[1])
  BY <1>5, <1>7 DEF Selected, Size
<1> QED
  BY <1>4, <1>5, <1>7, <1>8

\* def.h, last_inst_size: as long as no 0F 1E NOP is executed, a completed instruction
\* that is not a branch moves rip from where it was dispatched past its own bytes, also
\* when MEM_FETCH or MEM_WRITE hooks wrote rip meanwhile.
THEOREM LengthAdvances == Spec /\ []HandlersOnly => AdvancesByLength
<1>1. Base /\ HandlersOnly /\ [Next]_vars =>
        [Completed /\ "BRANCH" \notin run.decoded.flags =>
           cpu'.rip = run.rip_pre + Size(run.decoded.bytes[1])]_vars
  BY AdvanceStep
<1> QED
  BY <1>1, BaseInvariant, PTL DEF Spec, AdvancesByLength

-----------------------------------------------------------------------------
(* #UD                                                                     *)

\* With MEM_FETCH hooks, only instructions with a length, or undefined ones, are
\* dispatched.
LengthKnown ==
  run.pc = "dispatch" /\ HasHook("MEM_FETCH") =>
    run.decoded.length # 0 \/ "UD" \in run.decoded.flags

\* During a run #UD is pending only where an undefined instruction is about to raise it,
\* and never in the copy an escape callback works on.
UdOK ==
  /\ run.pc # "idle" /\ cpu.exc = "ud" => run.pc = "execute" /\ "UD" \in run.decoded.flags
  /\ run.pc = "escape" => run.entry[1].exc # "ud"

\* A run that ends with #UD.
UdStep == run.pc # "idle" /\ run'.pc = "idle" /\ run'.result = "ud" =>
            "UD" \in run.decoded.flags \/ EscapeClass(run.bytes) = "cpuid"

LEMMA IdleResult == \A r : Idle(r).pc = "idle" /\ Idle(r).result = r
  BY DEF Idle

\* Steps after which no #UD is pending, or which end the run with another result.
LEMMA UdClear ==
  ASSUME run'.pc # "idle", cpu'.exc # "ud", run'.pc = "escape" => run'.entry[1].exc # "ud"
  PROVE  UdOK' /\ UdStep
  BY DEF UdOK, UdStep

LEMMA UdEnds ==
  ASSUME NEW r, run' = Idle(r), r = "ud" => "UD" \in run.decoded.flags \/ EscapeClass(run.bytes) = "cpuid"
  PROVE  UdOK' /\ UdStep
  BY IdleResult DEF UdOK, UdStep

LEMMA LoopUd ==
  ASSUME Base, UdOK, LoopHead \/ PreHooksReturn \/ PostHooksReturn \/ LookupAddress \/ ClassifyEscape
  PROVE  UdOK' /\ UdStep
<1>0. cpu \in Contexts /\ mem \in Memories /\ PrimeModeKey(cpu) \in Contexts /\ PrimeModeKey(cpu).exc = cpu.exc
  BY PrimeFields DEF Base, Shape
<1>1. CASE LoopHead
  <2>1. run.pc = "loop" /\ UNCHANGED cpu /\ (run' = Idle("ok") \/ run'.pc \in {"step", "pre", "lookup"})
    BY <1>1, LoopHeadEffect
  <2> QED
    BY <2>1, UdEnds, UdClear DEF UdOK
<1>2. CASE PreHooksReturn \/ PostHooksReturn
  <2>1. run.pc \in {"pre", "post"} /\ UNCHANGED cpu /\ run'.pc \in {"lookup", "loop"}
    BY <1>2, PreHooksReturnEffect, PostHooksReturnEffect
  <2> QED
    BY <2>1, UdClear DEF UdOK
<1>3. CASE LookupAddress
  <2>1. /\ run.pc = "lookup"
        /\ run' = Idle("ok") \/ run' = Idle(cpu.exc) \/ LookupFast \/ LookupPrefetch
    BY <1>3, LookupEffect
  <2>2. cpu.exc # "ud"
    BY <2>1 DEF UdOK
  <2>3. CASE run' = Idle("ok") \/ run' = Idle(cpu.exc)
    BY <2>2, <2>3, UdEnds
  <2>4. CASE LookupFast
    <3>1. run'.pc = "dispatch" /\ cpu' = PrimeModeKey(cpu)
      BY <2>4 DEF LookupFast, Dispatch, Base, Shape, Runs
    <3> QED
      BY <1>0, <2>2, <3>1, UdClear
  <2>5. CASE LookupPrefetch
    <3>1. run'.pc = "prefetch" /\ cpu' = PrimeModeKey(cpu)
      BY <2>5 DEF LookupPrefetch
    <3> QED
      BY <1>0, <2>2, <3>1, UdClear
  <2> QED
    BY <2>1, <2>3, <2>4, <2>5
<1>4. CASE ClassifyEscape
  <2>1. run.pc = "classify" /\ (ToEscape \/ ToStep \/ ToFault)
    BY <1>4, ClassifyEffect
  <2>2. cpu.exc # "ud"
    BY <2>1 DEF UdOK
  <2>3. CASE ToEscape
    <3>1. cpu' = cpu /\ run'.pc = "escape" /\ run'.entry[1] = cpu
      BY <2>3 DEF ToEscape
    <3> QED
      BY <2>2, <3>1, UdClear
  <2>4. CASE ToStep
    BY <2>2, <2>4, UdClear DEF ToStep
  <2>5. CASE ToFault
    <3>1. /\ EscapeClass(run.bytes) \in {"cpuid", "int3"} /\ run' = Idle(cpu'.exc)
          /\ cpu' = Raise(cpu, IF EscapeClass(run.bytes) = "int3" THEN "bp" ELSE "ud")
      BY <2>5 DEF ToFault
    <3>2. EscapeClass(run.bytes) = "int3" => cpu'.exc # "ud"
      <4> SUFFICES ASSUME EscapeClass(run.bytes) = "int3" PROVE cpu'.exc # "ud"
        OBVIOUS
      <4>1. cpu' = Raise(cpu, "bp") /\ "bp" \in Faults
        BY <3>1 DEF Faults
      <4> QED
        BY <1>0, <2>2, <4>1, RaiseFields
    <3> QED
      BY <3>1, <3>2, UdEnds
  <2> QED
    BY <2>1, <2>3, <2>4, <2>5
<1> QED
  BY <1>1, <1>2, <1>3, <1>4

LEMMA StepUd ==
  ASSUME Base, UdOK, LengthKnown, StepWithPrefetch \/ NotifyFetchedBytes \/ FetchHooksReturn \/ EscapeReturn
  PROVE  UdOK' /\ UdStep
<1>0. cpu \in Contexts /\ run \in Runs /\ PrimeModeKey(cpu).exc = cpu.exc
  BY PrimeFields DEF Base, Shape
<1>1. CASE StepWithPrefetch
  <2>1. /\ run.pc = "step"
        /\ \/ run' = Idle(cpu.exc) \/ run' = Idle(StepContext.exc)
           \/ run'.pc = "dispatch" /\ (cpu' = PrimeModeKey(cpu) \/ cpu' = StepContext)
    BY <1>0, <1>1, StepEffect DEF StepHit, StepFill, Dispatch, Runs
  <2>2. cpu.exc # "ud" /\ StepContext.exc # "ud"
    BY <2>1, StepContextFields DEF UdOK
  <2> QED
    BY <1>0, <2>1, <2>2, UdEnds, UdClear
<1>2. CASE NotifyFetchedBytes
  <2>1. /\ run.pc = "dispatch" /\ run'.decoded = run.decoded
        /\ \/ cpu' = cpu /\ run'.pc = "fetch"
           \/ /\ run'.pc = "execute"
              /\ cpu' = cpu \/ (HasHook("MEM_FETCH") /\ run.decoded.length = 0)
    BY <1>2, NotifyEffect
  <2> QED
    BY <2>1 DEF UdOK, UdStep, LengthKnown
<1>3. CASE FetchHooksReturn
  BY <1>3, FetchHooksEffect, UdClear DEF UdOK
<1>4. CASE EscapeReturn
  <2>1. /\ run.pc = "escape"
        /\ \/ run' = Idle("callback_error")
           \/ /\ cpu'.exc = run.entry[1].exc
              /\ run' = Idle(cpu'.exc) \/ (cpu'.exc = "none" /\ run' = AfterStep(run))
    BY <1>4, EscapeReturnEffect
  <2>2. run.entry[1].exc # "ud"
    BY <2>1 DEF UdOK
  <2>3. AfterStep(run).pc \in {"post", "loop"}
    BY <1>0, AfterStepType
  <2> QED
    BY <2>1, <2>2, <2>3, UdEnds, UdClear
<1> QED
  BY <1>1, <1>2, <1>3, <1>4

LEMMA ExecuteUd ==
  ASSUME Base, UdOK, [Next]_vars, run.pc \in {"execute", "write"}, run'.pc \notin {"execute", "write"}
  PROVE  UdOK' /\ UdStep
<1>0. cpu \in Contexts /\ run \in Runs
  BY DEF Base, Shape
<1>1. CASE ExecuteFlagged
  <2>1. /\ run.decoded.flags \cap {"UD", "BP"} # {} /\ run' = Idle(cpu'.exc)
        /\ cpu' = Raise(cpu, IF "BP" \in run.decoded.flags THEN "bp" ELSE "ud")
    BY <1>1, ExecuteFlaggedEffect
  <2>2. "BP" \in run.decoded.flags => cpu'.exc \in {cpu.exc, "bp"}
    <3> SUFFICES ASSUME "BP" \in run.decoded.flags PROVE cpu'.exc \in {cpu.exc, "bp"}
      OBVIOUS
    <3>1. cpu' = Raise(cpu, "bp") /\ "bp" \in Faults
      BY <2>1 DEF Faults
    <3> QED
      BY <1>0, <3>1, RaiseFields
  <2>3. "BP" \notin run.decoded.flags => "UD" \in run.decoded.flags
    BY <2>1
  <2>4. cpu'.exc = "ud" => "UD" \in run.decoded.flags
    BY <2>2, <2>3 DEF UdOK
  <2> QED
    BY <2>1, <2>4, UdEnds
<1>2. CASE \E c \in Contexts : Handled(c)
  <2>1. PICK c \in Contexts : /\ c.exc = cpu.exc \/ c.exc \in {"gp", "pf_data"}
                              /\ FinishFaults(c) \/ FinishDone(c)
    BY <1>2 DEF Handled
  <2>2. c.exc = "ud" => "UD" \in run.decoded.flags
    BY <2>1 DEF UdOK
  <2>3. CASE FinishFaults(c)
    BY <2>2, <2>3, UdEnds DEF FinishFaults
  <2>4. CASE FinishDone(c)
    <3>1. cpu'.exc = "none" /\ run'.pc \in {"post", "loop"}
      BY <1>0, <2>4, AfterStepType DEF FinishDone
    <3> QED
      BY <3>1, UdClear
  <2> QED
    BY <2>1, <2>3, <2>4
<1> QED
  BY <1>1, <1>2, EndOfStep

LEMMA UdNext ==
  ASSUME Base, UdOK, LengthKnown, [Next]_vars
  PROVE  UdOK' /\ UdStep
<1>0. cpu \in Contexts /\ run \in Runs
  BY DEF Base, Shape
<1>1. CASE \E begin \in host.begins, until \in host.untils, count \in host.counts :
             EmuStart(begin, until, count)
  BY <1>1, EmuStartEffect, UdClear
<1>2. CASE LoopHead \/ PreHooksReturn \/ PostHooksReturn \/ LookupAddress \/ ClassifyEscape
  BY <1>2, LoopUd
<1>3. CASE StepWithPrefetch \/ NotifyFetchedBytes \/ FetchHooksReturn \/ EscapeReturn
  BY <1>3, StepUd
<1>4. CASE ExecuteFlagged \/ Execute \/ \E a \in StoreCells, v \in StoreOps : ExecuteStore(a, v)
  <2>1. run.pc \in {"execute", "write"} /\ run'.pc \in {"idle", "post", "loop"}
    BY <1>0, <1>4, ExecuteFlaggedEffect, ExecuteEffect, ExecuteStoreEffect, AfterStepType, IdleResult
       DEF FinishFaults, FinishDone
  <2> QED
    BY <2>1, ExecuteUd
<1>5. CASE NotifyWrite
  <2>1. run'.pc = "write" /\ cpu' = cpu /\ cpu.exc = "none"
    BY <1>5, NotifyWriteEffect
  <2> QED
    BY <2>1, UdClear
<1>6. CASE HostNext
  <2>1. PICK kind \in CallKinds : HostCall(kind) /\ cpu'.exc \in {cpu.exc, "none", "host"}
    BY <1>6, HostEffects DEF HostEffect
  <2>2. run.pc \in Sites /\ UNCHANGED run
    BY <2>1, HostCallFields
  <2> QED
    BY <2>1, <2>2 DEF UdOK, UdStep, Sites
<1>7. CASE EmuStop \/ UNCHANGED vars
  BY <1>7 DEF EmuStop, vars, UdOK, UdStep
<1>8. CASE PrefetchUnit \/ PrefetchEnds \/ PrefetchInvalid \/ InvalidHooksReturn
  <2>1. /\ run.pc \in {"prefetch", "invalid"} /\ run'.pc \in {"prefetch", "invalid", "classify"}
        /\ cpu'.exc \in {cpu.exc, "pf_exec"}
    BY <1>8, PrefetchEffect DEF PrefetchStep
  <2>2. cpu.exc # "ud"
    BY <2>1 DEF UdOK
  <2> QED
    BY <2>1, <2>2, UdClear
<1> QED
  BY <1>1, <1>2, <1>3, <1>4, <1>5, <1>6, <1>7, <1>8 DEF Next, EngineNext

\* executor.hpp, cpu_executor_notify_fetched_bytes: as long as MEM_FETCH hooks meet no
\* defined instruction whose entry has no length, a run ends with #UD only at an undefined
\* instruction or at a CPUID without callback, and RDSSP without one is a NOP.
THEOREM UdOnlyUndefined == Spec /\ []LengthKnown => UdOnlyForUndefined
<1>1. Init => UdOK
  BY DEF Init, InitWith, Idle, UdOK
<1>2. Base /\ UdOK /\ LengthKnown /\ [Next]_vars => UdOK'
  BY UdNext
<1>3. Base /\ UdOK /\ LengthKnown /\ [Next]_vars =>
        [run.pc # "idle" /\ run'.pc = "idle" /\ run'.result = "ud" =>
           \/ "UD" \in run.decoded.flags
           \/ EscapeClass(run.bytes) = "cpuid"]_vars
  BY UdNext DEF UdStep
<1> QED
  BY <1>1, <1>2, <1>3, BaseInvariant, PTL DEF Spec, UdOnlyForUndefined

=============================================================================
