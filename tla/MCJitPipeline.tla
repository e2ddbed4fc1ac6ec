---------------------------- MODULE MCJitPipeline ----------------------------
(***************************************************************************)
(* Blocks of a few instructions over four registers, of the kinds whose    *)
(* passes interact.  Values have five bits, words four, bytes two.         *)
(***************************************************************************)
EXTENDS JitPipeline

MCRegOrder == <<"eax", "ecx", "ebx", "esp", "ebp">>
eax == Alias("eax", 32, 0)
ecx == Alias("ecx", 32, 0)
ebx == Alias("ebx", 32, 0)
esp == Alias("esp", 32, 0)
ebp == Alias("ebp", 32, 0)
al == Alias("eax", 8, 0)
ah == Alias("eax", 8, 8)
cl == Alias("ecx", 8, 0)
bl == Alias("ebx", 8, 0)
ax == Alias("eax", 16, 0)
anyEax == Rm(eax)
anyEcx == Rm(ecx)
anyEbx == Rm(ebx)
anyAl == Rm(al)
anyAh == Rm(ah)
anyCl == Rm(cl)
atEbx == Ea("ebx", None, 1, 0)
atSum == Ea("eax", "ecx", 1, 4)
atScaled == Ea("eax", "ecx", 2, 4)
imm(n) == Immediate(n)

\* Full-width arithmetic without memory, up to a condition.
Conditions == [
  length |-> 3,
  body |-> {aluSemantic("add", 32, eax, anyEcx), cmpSemantic(32, anyEax, ecx), cmpSemantic(32, anyEcx, imm(1)),
            testSemantic(32, anyEcx, ecx), unaryAluSemantic("inc", 32, ecx), unaryAluSemantic("not", 32, anyEax),
            movSemantic(32, eax, anyEcx), movSemantic(32, ecx, imm(1)), xchgSemantic(32, anyEax, ecx),
            unaryAluSemantic("dec", 32, ecx)},
  exits |-> {jccSemantic("E", 3), jccSemantic("B", 3), jccSemantic("LE", 3),
             cmovSemantic("NE", 32, eax, anyEbx)}]

\* Conditions whose operands are overwritten before they are read: by a
\* conditional move or by what memory holds.
Overwritten == [
  length |-> 3,
  body |-> {cmpSemantic(32, anyEax, ecx), cmpSemantic(32, anyEax, imm(1)), cmovSemantic("NE", 32, eax, anyEbx),
            movSemantic(32, eax, atEbx), aluSemantic("add", 32, anyEcx, eax)},
  exits |-> {jccSemantic("E", 3), jccSemantic("A", 3)}]

\* Memory, the stack and addresses, with deferred full-width writes.
Accesses == [
  length |-> 3,
  body |-> {unaryAluSemantic("inc", 32, ebx), movSemantic(32, anyEax, ebx), movSemantic(32, eax, atEbx),
            movSemantic(32, atEbx, eax), aluSemantic("add", 32, ecx, anyEax), pushSemantic(eax),
            popSemantic(eax), leaSemantic(32, eax, atSum), leaSemantic(32, ecx, atScaled),
            xchgSemantic(32, anyEax, ebx)},
  exits |-> {retSemantic, callSemantic(imm(3)), jmpSemantic(anyEax),
             intSemantic(2), nopSemantic, testSemantic(32, atEbx, eax)}]

\* Returns that clean the stack, after instructions that leave esp alone.
Returns == [
  length |-> 3,
  body |-> {unaryAluSemantic("inc", 32, ebx), movSemantic(32, eax, atEbx), movSemantic(32, anyEcx, ebx),
            movSemantic(32, atEbx, eax), leaSemantic(32, eax, atSum),
            movSemantic(32, ebp, esp)},
  exits |-> {retImmSemantic(4), leaveSemantic}]

\* Parts of registers, constants, memory.
Parts == [
  length |-> 3,
  body |-> {movSemantic(32, eax, imm(19)), movSemantic(8, al, imm(2)), movSemantic(8, ah, imm(1)),
            movSemantic(8, cl, anyAh), movSemantic(16, ax, imm(7)), movzxSemantic(8, 32, ecx, anyAl),
            movsxSemantic(8, 32, ecx, anyAh), aluSemantic("xor", 8, anyAl, cl), movSemantic(8, al, atEbx)},
  exits |-> {intSemantic(2), movsxSemantic(16, 32, ebx, Rm(ax)), jccSemantic("S", 3)}]

MCProfiles == [conditions |-> Conditions, overwritten |-> Overwritten, accesses |-> Accesses, parts |-> Parts,
               returns |-> Returns]

\* Each form once, with operands that may name the same register, before and
\* after another instruction.
Forms == [
  length |-> 1,
  body |-> {movSemantic(32, eax, anyEax), movSemantic(8, al, anyAh), movSemantic(8, atEbx, al),
            movSemantic(16, ax, atEbx), xchgSemantic(32, anyEax, eax), xchgSemantic(8, anyAh, al),
            xchgSemantic(32, atEbx, eax), aluSemantic("add", 32, eax, anyEax),
            aluSemantic("sub", 32, atEbx, eax), aluSemantic("and", 16, ax, atEbx),
            aluSemantic("or", 8, anyAh, al), aluSemantic("add", 8, anyAl, ah),
            cmpSemantic(8, anyAl, imm(3)), testSemantic(8, anyAh, al),
            unaryAluSemantic("neg", 8, anyAh), unaryAluSemantic("inc", 16, Rm(ax)),
            unaryAluSemantic("dec", 32, atEbx), unaryAluSemantic("not", 8, anyAl),
            movzxSemantic(8, 32, eax, anyAh), movsxSemantic(8, 16, ax, anyAl),
            movzxSemantic(8, 32, eax, atEbx), movsxSemantic(8, 32, eax, atEbx),
            cmovSemantic("B", 32, eax, atEbx), cmovSemantic("S", 16, ax, Rm(ax)),
            leaSemantic(32, eax, atScaled), pushSemantic(esp), popSemantic(esp),
            pushSemantic(atEbx), leaveSemantic},
  exits |-> {retSemantic, retImmSemantic(4), callSemantic(atEbx), callSemantic(anyEax), jmpSemantic(atEbx),
             jmpSemantic(anyEcx), jccSemantic("LE", 3), intSemantic(2), nopSemantic}]

Shortened(p) == [p EXCEPT !.length = 2]
MCGenerated == [conditions |-> Shortened(Conditions), overwritten |-> Shortened(Overwritten),
                accesses |-> Shortened(Accesses), parts |-> Shortened(Parts),
                returns |-> Shortened(Returns), forms |-> Forms]

\* An epilogue: pop, then a return that cleans the stack.
Epilogues == [
  length |-> 1,
  body |-> {popSemantic(ebp)},
  exits |-> {retImmSemantic(4)}]

\* An address computed from a register, and that register overwritten.
Overtaken == [
  length |-> 2,
  body |-> {leaSemantic(32, ecx, Ea("eax", None, 1, 1)), movSemantic(32, eax, imm(5))},
  exits |-> {nopSemantic}]

\* Arithmetic on a byte extended to a register, the byte deferred.
Extended == [
  length |-> 2,
  body |-> {unaryAluSemantic("inc", 32, eax), movzxSemantic(8, 32, ecx, anyAl)},
  exits |-> {unaryAluSemantic("inc", 32, ecx)}]

MCEpilogues == [epilogues |-> Epilogues]
MCOvertaken == [overtaken |-> Overtaken]
MCExtended == [extended |-> Extended]

MCStarts == {
  [regs |-> [r \in Registers |-> CASE r = "eax" -> 1 [] r = "ecx" -> 1 [] r = "ebx" -> 21 [] r = "esp" -> 9
                              [] r = "ebp" -> 14],
   word |-> [f \in Flags |-> FALSE], mem |-> [a \in Values |-> (7 * a + 3) % 2 ^ DwordBits]],
  [regs |-> [r \in Registers |-> CASE r = "eax" -> 10 [] r = "ecx" -> 18 [] r = "ebx" -> 6 [] r = "esp" -> 2
                              [] r = "ebp" -> 25],
   word |-> [f \in Flags |-> f \in {"ZF", "CF", "SF"}], mem |-> [a \in Values |-> (5 * a + 1) % 2 ^ DwordBits]]}
=============================================================================
