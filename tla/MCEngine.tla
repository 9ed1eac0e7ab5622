------------------------------ MODULE MCEngine ------------------------------
(***************************************************************************)
(* Instances of Engine for TLC: small programs, the hooks and escapes they *)
(* start with, and the calls a host makes in each of its callbacks.        *)
(***************************************************************************)
EXTENDS Engine

Everywhere(kinds) == [s \in Sites |-> kinds]

SetupOn(exec, program, hooks, escapes, calls, begins, untils, counts) ==
  [program |-> program, exec |-> exec, hooks |-> hooks, escapes |-> escapes,
   calls |-> calls, begins |-> begins, untils |-> untils, counts |-> counts]

Setup(program, hooks, escapes, calls, begins, untils, counts) ==
  SetupOn(Addrs, program, hooks, escapes, calls, begins, untils, counts)

\* Code that is rewritten, re-protected and re-entered in the other mode, between runs, from hooks of
\* every kind, and from the hooks of a fetch that finds the second unit not executable.
CacheCalls  == [Everywhere({"mem_write", "protect"}) EXCEPT
                  !["idle"]    = {"mem_write", "protect", "context", "hooks"},
                  !["pre"]     = {"mem_write", "protect", "context"},
                  !["invalid"] = {"mem_write", "protect", "context"}]
CacheSetups == {Setup(<<"x40", "store", "far", "operand">>, {}, {}, CacheCalls,
                      {1}, {0}, {0, 2}),
                SetupOn({1, 3, 4}, <<"mem", "x40", "far", "operand">>, {"FETCH_INVALID"}, {},
                        CacheCalls, {1}, {0}, {2})}

\* Every escape class, with registrations that come and go; and instructions that
\* fault half way, with hooks that raise, write rip and rewrite CS; and an endless loop.
EscapeCalls == [Everywhere({"escapes", "hooks"}) EXCEPT !["escape"] = {"context", "mem_write"}]
FaultCalls  == [Everywhere({"raise", "clear", "context"}) EXCEPT
                  !["pre"]     = {"raise"},
                  !["fetch"]   = {"raise", "clear", "context", "rip"},
                  !["invalid"] = {"raise"}]
LoopCalls   == [Everywhere({"hooks"}) EXCEPT !["pre"] = {"raise"}, !["post"] = {"cs", "rip"}]
StepSetups  ==
  {Setup(<<"cpuid", "rdssp", "int3", "jmp", "operand", "operand", "operand">>,
         {}, {"cpuid"}, EscapeCalls, {0, 1}, {0}, {0}),
   SetupOn(1..6, <<"mem", "operand", "rep", "sse", "store", "far", "operand">>,
           {"PRE", "MEM_FETCH", "MEM_WRITE", "FETCH_INVALID"}, {}, FaultCalls, {0, 1}, {0}, {0}),
   Setup(<<"alu", "jmp", "operand", "operand", "operand", "operand", "operand">>,
         {"PRE", "POST"}, {}, LoopCalls, {0, 1}, {0, 2}, {0, 2})}

\* One culprit each: a guest store into cached code, a CS write from a post-hook.
NoCalls    == Everywhere({})
SmcSetups  == {Setup(<<"alu", "store", "jmp", "operand">>, {}, {}, NoCalls, {1}, {0}, {0})}
ModeSetups == {Setup(<<"x40", "jmp", "operand">>, {"POST"}, {},
                     [NoCalls EXCEPT !["post"] = {"cs"}], {1}, {0}, {0})}

=============================================================================
