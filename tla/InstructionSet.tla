---------------------------- MODULE InstructionSet ----------------------------
(***************************************************************************)
(* X86_32_CORE: every instruction form of the core, as x86/isa/defs states *)
(* them, and what x86/isa/schema does with a form: when it reads a ModRM   *)
(* byte, the opcodes it expands to, and when two forms overlap.            *)
(***************************************************************************)
EXTENDS Integers, Sequences, FiniteSets

Widths == {8, 16, 32}
Reg3 == 0 .. 7
AnyExt == -1                 \* the form does not match ModRM.reg
Conditions == 0 .. 15
NoCondition == -1

\* Operands, by how their encoding is found.
Operand(kind, w) == [kind |-> kind, width |-> w, memoryOnly |-> FALSE, sign |-> FALSE]
modrmReg(w) == Operand("modrm.reg", w)
modrmRm(w) == Operand("modrm.rm", w)
modrmMem(w) == [Operand("modrm.rm", w) EXCEPT !.memoryOnly = TRUE]
opReg(w) == Operand("opcode.reg", w)
accumulator(w) == Operand("implicit.reg", w)
imm(w) == Operand("imm", w)
immSigned == [Operand("imm", 8) EXCEPT !.sign = TRUE]
rel(w) == Operand("rel", w)

OperandKinds == {"modrm.reg", "modrm.rm", "opcode.reg", "implicit.reg", "imm", "rel"}
OperandSpecs ==
    {o \in [kind : OperandKinds, width : Widths, memoryOnly : BOOLEAN, sign : BOOLEAN] :
        o.memoryOnly => o.kind = "modrm.rm"}

\* What validateInstructionSpec checks: an opcode.reg operand needs variable low
\* bits in the opcode, and these are zero in the form.
LastByte(opcode) == opcode[Len(opcode)]
IsForm(f) ==
    /\ f.opcode \in Seq(0 .. 255) \ {<<>>}
    /\ f.operands \in Seq(OperandSpecs)
    /\ f.plusReg => LastByte(f.opcode) % 8 = 0
    /\ (\E i \in DOMAIN f.operands : f.operands[i].kind = "opcode.reg") => f.plusReg

\* Nothing checks this, but it holds for every form: one that reads a ModRM byte
\* has one operand with the address, and no bytes of its own stand before it.
AddressFirst(f) ==
    LET takes(i, kinds) == f.operands[i].kind \in kinds
    IN  \E i \in DOMAIN f.operands :
          /\ takes(i, {"modrm.rm"})
          /\ \A j \in DOMAIN f.operands : takes(j, {"modrm.rm"}) => j = i
          /\ \A j \in 1 .. i : ~takes(j, {"imm", "rel"})

\* A form; operand size 16 is the one that needs the prefix.  The last byte of
\* an opcodePlusReg path has three variable low bits.
prefixMode(size) == IF size = 16 THEN "override" ELSE "default"
form(name, path, size, list) ==
    [mnemonic |-> name, opcode |-> path, size |-> size, prefix |-> prefixMode(size),
     plusReg |-> FALSE, ext |-> AnyExt, cc |-> NoCondition, operands |-> list]
plusReg(f) == [f EXCEPT !.plusReg = TRUE]
slash(f, ext) == [f EXCEPT !.ext = ext]
conditional(f, cc) == [f EXCEPT !.cc = cc]

Wide(size) == IF size = 8 THEN 0 ELSE 1

-----------------------------------------------------------------------------
(* The forms.                                                               *)

rmFirst(name, first, w) == form(name, <<first>>, w, <<modrmRm(w), modrmReg(w)>>)
regFirst(name, first, w) == form(name, <<first>>, w, <<modrmReg(w), modrmRm(w)>>)
rmOnly(name, first, ext, w) == slash(form(name, <<first>>, w, <<modrmRm(w)>>), ext)
rmImm(name, first, ext, w) == slash(form(name, <<first>>, w, <<modrmRm(w), imm(w)>>), ext)
accumulatorImm(name, first, w) == form(name, <<first>>, w, <<accumulator(w), imm(w)>>)

\* The fourteen forms of a two-operand instruction.
twoOperand(name, base, ext) ==
    UNION {{rmFirst(name, base + Wide(w), w),
            regFirst(name, base + 2 + Wide(w), w),
            accumulatorImm(name, base + 4 + Wide(w), w),
            rmImm(name, \h80 + Wide(w), ext, w)} : w \in Widths}
    \cup {slash(form(name, <<\h83>>, w, <<modrmRm(w), immSigned>>), ext) : w \in {16, 32}}

ADD == twoOperand("add", \h00, 0)
OR  == twoOperand("or", \h08, 1)
AND == twoOperand("and", \h20, 4)
SUB == twoOperand("sub", \h28, 5)
\* xor given the opcodes of sub, its ModRM.reg kept.
XORWithSubBase == twoOperand("xor", \h28, 6)
XOR == twoOperand("xor", \h30, 6)
CMP == twoOperand("cmp", \h38, 7)
TEST ==
    UNION {{rmFirst("test", \h84 + Wide(w), w), accumulatorImm("test", \hA8 + Wide(w), w),
            rmImm("test", \hF6 + Wide(w), 0, w)} : w \in Widths}

incDec(name, first, ext) ==
    {plusReg(form(name, <<first>>, w, <<opReg(w)>>)) : w \in {16, 32}}
    \cup {rmOnly(name, \hFE + Wide(w), ext, w) : w \in Widths}
INC == incDec("inc", \h40, 0)
DEC == incDec("dec", \h48, 1)
NOT == {rmOnly("not", \hF6 + Wide(w), 2, w) : w \in Widths}
NEG == {rmOnly("neg", \hF6 + Wide(w), 3, w) : w \in Widths}

MOV ==
    UNION {{rmFirst("mov", \h88 + Wide(w), w), regFirst("mov", \h8A + Wide(w), w),
            rmImm("mov", \hC6 + Wide(w), 0, w),
            plusReg(form("mov", <<\hB0 + 8 * Wide(w)>>, w, <<opReg(w), imm(w)>>))} : w \in Widths}
extending(name, first) ==
    {form(name, <<\h0F, first>>, w, <<modrmReg(w), modrmRm(8)>>) : w \in {16, 32}}
    \cup {form(name, <<\h0F, first + 1>>, 32, <<modrmReg(32), modrmRm(16)>>)}
MOVZX == extending("movzx", \hB6)
MOVSX == extending("movsx", \hBE)
CMOVCC == {conditional(form("cmov", <<\h0F, \h40 + cc>>, 32, <<modrmReg(32), modrmRm(32)>>), cc) :
             cc \in Conditions}
XCHG == {rmFirst("xchg", \h86 + Wide(w), w) : w \in Widths}
LEA == {form("lea", <<\h8D>>, w, <<modrmReg(w), modrmMem(w)>>) : w \in {16, 32}}

PUSH == {plusReg(form("push", <<\h50>>, 32, <<opReg(32)>>)), rmOnly("push", \hFF, 6, 32),
         form("push", <<\h68>>, 32, <<imm(32)>>), form("push", <<\h6A>>, 32, <<immSigned>>)}
POP == {plusReg(form("pop", <<\h58>>, 32, <<opReg(32)>>))}
LEAVE == {form("leave", <<\hC9>>, 32, <<>>)}

JMP == {form("jmp", <<\hEB>>, 32, <<rel(8)>>), form("jmp", <<\hE9>>, 32, <<rel(32)>>),
        rmOnly("jmp", \hFF, 4, 32)}
CALL == {form("call", <<\hE8>>, 32, <<rel(32)>>), rmOnly("call", \hFF, 2, 32)}
RET == {form("ret", <<\hC3>>, 32, <<>>), form("ret", <<\hC2>>, 32, <<imm(16)>>)}
JCC == UNION {{conditional(form("j", <<\h70 + cc>>, 32, <<rel(8)>>), cc),
               conditional(form("j", <<\h0F, \h80 + cc>>, 32, <<rel(32)>>), cc)} : cc \in Conditions}

NOP == {form("nop", <<\h90>>, w, <<>>) : w \in {16, 32}}
       \cup {slash(form("nop", <<\h0F, \h1F>>, w, <<modrmRm(w)>>), 0) : w \in {16, 32}}
INT == {form("int", <<\hCD>>, 32, <<imm(8)>>)}

X86_32_CORE ==
    UNION {NOP, MOV, MOVZX, MOVSX, CMOVCC, XCHG, LEA, ADD, OR, AND, SUB, XOR, INC, DEC, NOT,
           NEG, CMP, TEST, PUSH, POP, LEAVE, JMP, CALL, RET, INT, JCC}

-----------------------------------------------------------------------------

instructionReadsModRm(f) ==
    \/ f.ext # AnyExt
    \/ \E i \in DOMAIN f.operands : f.operands[i].kind \in {"modrm.reg", "modrm.rm"}

\* The opcodes of a form, each with the low bits that select a register.
expandInstructionSpec(f) ==
    LET last == Len(f.opcode)
    IN  {[spec |-> f, opcode |-> [f.opcode EXCEPT ![last] = @ + low], lowBits |-> low] :
           low \in IF f.plusReg THEN Reg3 ELSE {0}}

modRmUseOverlaps(f, g) ==
    instructionReadsModRm(f) /\ instructionReadsModRm(g)
        => f.ext = AnyExt \/ g.ext = AnyExt \/ f.ext = g.ext

\* Two expanded forms the bytes cannot tell apart.
instructionSpecsOverlap(e, o) ==
    /\ e.opcode = o.opcode
    /\ e.spec.prefix = o.spec.prefix
    /\ modRmUseOverlaps(e.spec, o.spec)
=============================================================================
