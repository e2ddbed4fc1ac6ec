------------------------------ MODULE IsaDecoder ------------------------------
(***************************************************************************)
(* decodeIsaInstructionFromReader: one instruction from bytes.  code holds *)
(* the readable bytes from the instruction's address on; a read past them, *)
(* or past the fifteenth byte, throws.  Every read here is at or before    *)
(* the next unread byte, so what throws is always the first such byte.     *)
(*                                                                         *)
(* Displacements and immediates stay where they are: an operand names the  *)
(* bytes that hold its value and how they are extended.                    *)
(***************************************************************************)
EXTENDS InstructionSet, FiniteSetsExt, SequencesExt

CONSTANT Instructions        \* the forms the dispatch tree is built from

ASSUME InstructionsAssumption == \A f \in Instructions : IsForm(f)

maxX86InstructionLength == 15
OperandSizePrefix == \h66
NoReg == 8                   \* no base, or no index

ByteAt(code, offset) == code[offset + 1]
Readable(code, length) == length <= Len(code) /\ length <= maxX86InstructionLength
Fault(code) ==
    [kind |-> "fault", at |-> IF Len(code) < maxX86InstructionLength
                              THEN Len(code) ELSE maxX86InstructionLength]
Unsupported(length) == [kind |-> "unsupported", length |-> length]

Mod(modrm) == modrm \div 64
RegField(modrm) == (modrm \div 8) % 8
RmField(modrm) == modrm % 8

-----------------------------------------------------------------------------
(* buildOpcodeDispatch: a tree over the opcode bytes, whose leaves hold the *)
(* candidates for each operand size and each ModRM.reg.                     *)

Expanded == UNION {expandInstructionSpec(f) : f \in Instructions}
Leaves == {e.opcode : e \in Expanded}
Nodes == {<<>>} \cup UNION {{SubSeq(path, 1, n) : n \in 0 .. Len(path)} : path \in Leaves}
Candidates(opcode, mode) == {e \in Expanded : e.opcode = opcode /\ e.spec.prefix = mode}
candidatesKind(found) ==
    IF found = {} THEN "empty"
    ELSE IF \E e \in found : instructionReadsModRm(e.spec) THEN "modRm" ELSE "noModRm"

regMatches(e, reg) == e.spec.ext = AnyExt \/ e.spec.ext = reg
modRmByReg(found, reg) == {e \in found : regMatches(e, reg)}

-----------------------------------------------------------------------------
(* ModRM addressing.                                                        *)

HasSib(modrm) == Mod(modrm) # 3 /\ RmField(modrm) = 4
DisplacementWidth(mod, baseField) ==
    CASE mod = 1 -> 8 [] mod = 2 -> 32 [] mod = 0 /\ baseField = 5 -> 32 [] OTHER -> 0
NoDisplacement == [at |-> 0, width |-> 0]
Displacement(at, w) == IF w = 0 THEN NoDisplacement ELSE [at |-> at, width |-> w]

\* The register or the address ModRM names, and the bytes it takes with it.
RegisterRm(modrm) == [kind |-> "reg", index |-> RmField(modrm), length |-> 1]
MemoryRm(base, index, scale, disp, length) ==
    [kind |-> "mem", base |-> base, index |-> index,
     scale |-> IF index = NoReg THEN 1 ELSE scale, disp |-> disp, length |-> length]

decodeModRmAddressing(code, at) ==
    LET modrm == ByteAt(code, at)
        mod == Mod(modrm)
        sib == ByteAt(code, at + 1)
        baseField == IF HasSib(modrm) THEN sib % 8 ELSE RmField(modrm)
        dispAt == IF HasSib(modrm) THEN at + 2 ELSE at + 1
        width == DisplacementWidth(mod, baseField)
        index == IF HasSib(modrm) /\ (sib \div 8) % 8 # 4 THEN (sib \div 8) % 8 ELSE NoReg
    IN  IF mod = 3 THEN RegisterRm(modrm)
        ELSE MemoryRm(IF mod = 0 /\ baseField = 5 THEN NoReg ELSE baseField, index,
                      IF HasSib(modrm) THEN 2 ^ (sib \div 64) ELSE 1,
                      Displacement(dispAt, width), dispAt - at + width \div 8)

\* The bytes that must be readable before the addressing is known.
rm32ModRmByteLengthAt(code, at) ==
    IF ~Readable(code, at + 1) THEN 1
    ELSE IF HasSib(ByteAt(code, at)) /\ ~Readable(code, at + 2) THEN 2
    ELSE decodeModRmAddressing(code, at).length

-----------------------------------------------------------------------------
(* Operands.                                                                *)

Register(w, index) == [kind |-> "reg", width |-> w, index |-> index]
Memory(w, rm) == [kind |-> "mem", width |-> w, base |-> rm.base, index |-> rm.index,
                  scale |-> rm.scale, disp |-> rm.disp]
ImmediateBytes(operand, at) ==
    [kind |-> "imm", at |-> at, width |-> operand.width, sign |-> operand.sign]
\* The displacement is added to the address of the next instruction.
Relative(operand, at) ==
    [kind |-> "relTarget", at |-> at, width |-> operand.width, from |-> at + operand.width \div 8]

EncodedBytes(operand) == IF operand.kind \in {"imm", "rel"} THEN operand.width \div 8 ELSE 0
\* Where the bytes of the n-th operand begin; n one past the last: the length.
OperandAt(operands, start, n) ==
    LET at[i \in 1 .. Len(operands) + 1] ==
            IF i = 1 THEN start ELSE at[i - 1] + EncodedBytes(operands[i - 1])
    IN  at[n]

decodeOperand(e, modrm, rm, operand, at) ==
    CASE operand.kind = "modrm.reg" -> Register(operand.width, RegField(modrm))
      [] operand.kind = "modrm.rm" -> IF rm.kind = "reg" THEN Register(operand.width, rm.index)
                                      ELSE Memory(operand.width, rm)
      [] operand.kind = "opcode.reg" -> Register(operand.width, e.lowBits)
      [] operand.kind = "implicit.reg" -> Register(operand.width, 0)
      [] operand.kind = "imm" -> ImmediateBytes(operand, at)
      [] operand.kind = "rel" -> Relative(operand, at)

decodeCandidate(code, e, modrm, rm, start) ==
    LET operands == e.spec.operands
        length == OperandAt(operands, start, Len(operands) + 1)
    IN  IF \E i \in DOMAIN operands : operands[i].memoryOnly /\ rm.kind = "reg"
        THEN Unsupported(start)
        ELSE IF ~Readable(code, length) THEN Fault(code)
        ELSE [kind |-> "ok", spec |-> e.spec, length |-> length,
              operands |-> [i \in DOMAIN operands |->
                              decodeOperand(e, modrm, rm, operands[i], OperandAt(operands, start, i))]]

-----------------------------------------------------------------------------

\* The offset of the first byte that is no prefix.
decodePrefixes(code) ==
    Min({n \in 0 .. Len(code) : n = Len(code) \/ ByteAt(code, n) # OperandSizePrefix})

\* The bytes looked at from the opcode's offset on, until a leaf or none.
opcodeLength(code, at) ==
    Min({n \in 1 .. Len(code) - at + 1 :
           \/ ~Readable(code, at + n)
           \/ SubSeq(code, at + 1, at + n) \in Leaves
           \/ SubSeq(code, at + 1, at + n) \notin Nodes})

dispatchModRm(code, found, start) ==
    LET length == rm32ModRmByteLengthAt(code, start)
        modrm == ByteAt(code, start)
        matching == modRmByReg(found, RegField(modrm))
    IN  IF ~Readable(code, start + length) THEN Fault(code)
        ELSE IF matching = {} THEN Unsupported(start + length)
        ELSE decodeCandidate(code, CHOOSE e \in matching : TRUE, modrm,
                             decodeModRmAddressing(code, start), start + length)

NoRm == [kind |-> "none"]
decodeIsaInstructionFromReader(code) ==
    LET prefixes == decodePrefixes(code)
        mode == IF prefixes = 0 THEN "default" ELSE "override"
        end == prefixes + opcodeLength(code, prefixes)
        opcode == SubSeq(code, prefixes + 1, end)
        found == Candidates(opcode, mode)
    IN  IF ~Readable(code, end) THEN Fault(code)
        ELSE CASE candidatesKind(found) = "empty" -> Unsupported(end)
               [] candidatesKind(found) = "noModRm" ->
                    decodeCandidate(code, CHOOSE e \in found : TRUE, 0, NoRm, end)
               [] candidatesKind(found) = "modRm" -> dispatchModRm(code, found, end)
=============================================================================
