---------------------------- MODULE MCStringOps -----------------------------
(***************************************************************************)
(* Instances of StringOps for TLC: 8, 16 and 32 addresses for 16, 32 and   *)
(* 64 bits, in pages of four.                                              *)
(***************************************************************************)
EXTENDS StringOps

Spans == [w \in {16, 32, 64} |-> IF w = 16 THEN 8 ELSE IF w = 32 THEN 16 ELSE 32]
Bases == [s \in Segments |-> IF s = "es" THEN 1 ELSE 2]

\* Byte and wide forms of each mode; every operand and address size occurs.
Form(wide, long, prefixes) == [wide |-> wide, long |-> long, prefixes |-> prefixes]
Forms == {Form(FALSE, TRUE, {}), Form(TRUE, TRUE, {"67"}), Form(TRUE, TRUE, {"rexw"}),
          Form(TRUE, FALSE, {"66", "67"}), Form(TRUE, FALSE, {})}

\* A plain form, and the repeated forms that differ.
Reps(op) == {"none", "F3"} \cup (IF op \in {"cmps", "scas"} THEN {"F2"} ELSE {})

\* Overlapping elements that cross a page; the edge of the canonical half; the edges of
\* 16 and of 32 bits.
Indices0 == {<<2, 3>>, <<10, 6>>, <<7, 15>>}

Program(op, rep, f, df, at, rcx) ==
  [op |-> op, rep |-> rep, wide |-> f.wide, long |-> f.long, prefixes |-> f.prefixes,
   df |-> df, rsi |-> at[1], rdi |-> at[2], rcx |-> rcx]

\* Counts of 0 and 3, the latter also with bits above 16 and above 32 of them.
StringPrograms ==
  LET Of(op) == {Program(op, rep, f, df, at, rcx) :
                   rep \in Reps(op), f \in Forms, df \in BOOLEAN, at \in Indices0,
                   rcx \in {3, 19}}
      Empty(op) == {Program(op, "F3", f, FALSE, <<2, 3>>, 0) : f \in Forms}
      Locked(op) == {Program(op, "F3", Form(FALSE, TRUE, {"lock"}), FALSE, <<2, 3>>, 3)}
  IN  UNION {{p \in Of(op) : p.rcx = 19 <=> decode_address_size(p) # 64 /\ ~p.df}
             \cup Empty(op) \cup Locked(op) : op \in {"movs", "cmps", "stos", "lods", "scas"}}

Mems  == {[c \in Cells |-> (c \div 3) % 2], [c \in Cells |-> 1]}
Pages == {[p \in PageNos |-> "rw"], [p \in PageNos |-> IF p = 1 THEN "r" ELSE "rw"],
          [p \in PageNos |-> IF p = 2 THEN "none" ELSE "rw"]}

\* The host takes page 1 away, gives it back, and repairs page 2.
PageChanges == {<<1, "none">>, <<1, "rw">>, <<2, "rw">>}

=============================================================================
