----------------------------- MODULE MCFlagState -----------------------------
(***************************************************************************)
(* A small instance of FlagState for TLC: two registers, operand widths of *)
(* 2, 3 and 4 bits.  The first writer of a block is any instruction on     *)
(* bytes, or one of each kind on more; the second one replaces the flags   *)
(* of the first or keeps its carry.                                        *)
(***************************************************************************)
EXTENDS FlagState

MCRegs == {"eax", "ecx"}
MCSelected == {<<"eax", 8>>}
\* Pairs of operands that carry, borrow, overflow, meet and cancel at each width.
MCPairs == {<<1, 3>>, <<7, 8>>, <<15, 15>>}
MCStarts == {[r \in MCRegs |-> IF r = "eax" THEN pair[1] ELSE pair[2]] : pair \in MCPairs}
MCMenu(n) ==
    IF n = 1 THEN (Instructions \X {8} \X {"eax"} \X {"ecx"})
                  \cup ({"add", "cmp", "dec", "xor"} \X {16, 32} \X {"eax"} \X {"ecx"})
    ELSE {<<"inc", 8, "eax", "eax">>, <<"cmp", 32, "ecx", "eax">>}
MCTested == {"LE"}
MCStarting == {[f \in Flags |-> f \in {"CF", "OF"}]}

\* What the theorems take from arithmetic holds at these widths.
ASSUME ArithmeticAssumption == Arithmetic
=============================================================================
