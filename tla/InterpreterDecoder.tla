-------------------------- MODULE InterpreterDecoder --------------------------
(***************************************************************************)
(* The decoder inside the interpreter's Wasm module: nested br_table       *)
(* switches over opcode bytes, a loop for the operand-size prefix, a       *)
(* switch over ModRM.reg, and operands decoded one after the other from    *)
(* guest memory.  Each read is checked against the fifteen bytes of an     *)
(* instruction and against the end of memory; a failed check, like a form  *)
(* that is not supported, leaves the module through an exit.               *)
(***************************************************************************)
EXTENDS IsaDecoder

CONSTANT Images           \* what guest memory holds from the instruction on

ASSUME ImagesAssumption == Images \subseteq Seq(0 .. 255)

\* The address is read where its operand stands, by the other decoder right
\* behind the ModRM byte.
ASSUME AddressAssumption == \A f \in Instructions : instructionReadsModRm(f) => AddressFirst(f)

\* The byte of a further switch is always read right behind the opcode's first.
ASSUME OpcodeAssumption == \A f \in Instructions : Len(f.opcode) <= 2

VARIABLES code,           \* the guest bytes; memory ends where they end
          stage,          \* what the emitted code does next, or "done"
          opcodeOffset,   \* where the opcode begins, after the prefixes
          mode,           \* the operand size the handlers are emitted for
          node,           \* the opcode bytes dispatched on so far
          byte, opcode,   \* the locals of the last byte and the opcode byte
          modrm, sib,     \* the bytes read for addressing, NoByte before
          chosen,         \* the form whose handler runs
          reader,         \* the offset of the next operand byte
          operands,       \* the operands bound so far
          touched,        \* the bytes read so far
          result          \* how the decoding ended

vars == <<code, stage, opcodeOffset, mode, node, byte, opcode, modrm, sib, chosen, reader,
          operands, touched, result>>

NoByte == -1
NoForm == {}
Nothing == [kind |-> "none"]

Init ==
    /\ code \in Images
    /\ stage = "opcode"
    /\ opcodeOffset = 0
    /\ mode = "default"
    /\ node = <<>>
    /\ byte = NoByte /\ opcode = NoByte
    /\ modrm = NoByte /\ sib = NoByte
    /\ chosen = NoForm
    /\ reader = 0
    /\ operands = <<>>
    /\ touched = 0
    /\ result = Nothing

-----------------------------------------------------------------------------
(* Switches.  A br_table at depth d leaves d + 1 blocks; the cases are      *)
(* emitted from the last to the first, each behind one block end, and the   *)
(* default behind them all.  The depth of a case is the number of cases     *)
(* behind it.                                                               *)

dispatchBytes(at) == {b \in 0 .. 255 : Append(at, b) \in Nodes}
dispatchBytesForContext(at) == dispatchBytes(at) \cup (IF at = <<>> THEN {OperandSizePrefix} ELSE {})

\* The cases ascend; a prefix that is no opcode byte is appended to them.
casePosition(at) ==
    LET bytes == dispatchBytes(at)
    IN  [b \in dispatchBytesForContext(at) |-> IF b \in bytes THEN b ELSE 256]
Depths(positions) ==
    [b \in DOMAIN positions |-> Cardinality({c \in DOMAIN positions : positions[c] > positions[b]})]
Switches == [at \in Nodes \ Leaves |-> Depths(casePosition(at))]

dispatchTable(depths, b) == IF b \in DOMAIN depths THEN depths[b] ELSE Cardinality(DOMAIN depths)
Landing(depths, depth) == {b \in DOMAIN depths : depths[b] = depth}

\* The case the opcode byte lands in, or none.
OpcodeCase ==
    LET depths == Switches[node] IN Landing(depths, dispatchTable(depths, byte))

\* The handlers of a leaf by ModRM.reg: one case per form, in the order of the
\* first register it takes.  Its depth is the number of cases behind it.
registerModRmDispatchCases(found) ==
    LET regs(e) == {reg \in Reg3 : regMatches(e, reg)}
    IN  {[form |-> e, regs |-> regs(e)] : e \in {f \in found : regs(f) # {}}}
registerModRmPosition(cases) == [c \in cases |-> Min(c.regs)]
registerModRmTable(depths, reg) ==
    LET taking == {c \in DOMAIN depths : reg \in c.regs}
    IN  IF taking = {} THEN Cardinality(DOMAIN depths) ELSE depths[CHOOSE c \in taking : TRUE]

\* The switch that turns a register number into an access, default innermost.
RegisterCount == 8
registerIndexDispatchTable == [index \in Reg3 |-> RegisterCount - index]
RegisterCase(index) == RegisterCount - registerIndexDispatchTable[index]

-----------------------------------------------------------------------------
(* Reads.  pendingRead is what the current stage reads next: an offset and  *)
(* a number of bytes, or none.                                              *)

NoRead == <<0, 0>>
operandsLeft == Len(operands) < Len(chosen.spec.operands)
operand == chosen.spec.operands[Len(operands) + 1]
rmInMemory == operand.kind = "modrm.rm" /\ Mod(modrm) # 3
needsSib == rmInMemory /\ HasSib(modrm) /\ sib = NoByte
baseField == IF HasSib(modrm) THEN sib % 8 ELSE RmField(modrm)
\* The missing base looked for in ModRM alone, with or without a SIB byte.
displacementWidthByRm == DisplacementWidth(Mod(modrm), RmField(modrm))
displacementWidth == DisplacementWidth(Mod(modrm), baseField)

operandRead ==
    CASE ~operandsLeft -> NoRead
      [] operandsLeft /\ needsSib -> <<reader, 1>>
      [] operandsLeft /\ rmInMemory /\ ~needsSib -> <<reader, displacementWidth \div 8>>
      [] OTHER -> <<reader, EncodedBytes(operand)>>

\* The byte a switch is over: the opcode's first at the root, else the one after
\* it, however deep the node; and the byte behind the opcode of a leaf.
opcodeByteOffset == opcodeOffset + (IF node = <<>> THEN 0 ELSE 1)
modRmOffset == opcodeOffset + Len(node)

pendingRead ==
    CASE stage = "opcode" -> <<opcodeByteOffset, 1>>
      [] stage = "modrm" -> <<modRmOffset, 1>>
      [] stage = "operands" -> operandRead
      [] OTHER -> NoRead

\* The limit taken for the first length that is refused.
tooLongAtLimit(read) == read[1] + read[2] >= maxX86InstructionLength
tooLong(read) == read[1] + read[2] > maxX86InstructionLength
\* The bound of a single byte, whatever is read there.
outOfBoundsByte(read) == read[1] + 1 > Len(code)
outOfBounds(read) == read[1] + read[2] > Len(code)
Fails(read) == read[2] > 0 /\ (tooLong(read) \/ outOfBounds(read))

CanRead == ~Fails(pendingRead)
PendingByte == ByteAt(code, pendingRead[1])
Touch == touched' = IF pendingRead[2] = 0 THEN touched ELSE Max({touched, pendingRead[1] + pendingRead[2]})

Exit(how) ==
    /\ result' = how
    /\ stage' = "done"
    /\ UNCHANGED <<code, opcodeOffset, mode, node, byte, opcode, modrm, sib, chosen, reader, operands,
                   touched>>

\* The exit's payload is the first byte of the read, or where the limit is.
DecodeFault ==
    /\ Fails(pendingRead)
    /\ Exit([kind |-> "fault", at |-> IF tooLong(pendingRead) THEN maxX86InstructionLength
                                      ELSE pendingRead[1]])

-----------------------------------------------------------------------------
(* Opcode bytes.                                                            *)

\* The byte after the ones dispatched on, for the switch of their node.
LoadOpcodeByte ==
    /\ stage = "opcode"
    /\ CanRead
    /\ byte' = PendingByte
    /\ opcode' = PendingByte
    /\ Touch
    /\ stage' = "dispatch"
    /\ UNCHANGED <<code, opcodeOffset, mode, node, modrm, sib, chosen, reader, operands, result>>

UnsupportedOpcode ==
    /\ stage = "dispatch"
    /\ OpcodeCase = {}
    /\ Exit(Unsupported(0))

isOperandSizePrefixCase(b) == node = <<>> /\ b = OperandSizePrefix

\* The first prefix enters the loop, a further one goes round it; either way
\* the opcode begins one byte later and is dispatched with the other size.
PrefixCase ==
    /\ stage = "dispatch"
    /\ \E b \in OpcodeCase : isOperandSizePrefixCase(b)
    /\ opcodeOffset' = opcodeOffset + 1
    /\ mode' = "override"
    /\ stage' = "opcode"
    /\ UNCHANGED <<code, node, byte, opcode, modrm, sib, chosen, reader, operands, touched, result>>

\* A node of the tree: its leaf's handler, or the switch over the next byte.
OpcodeNode ==
    /\ stage = "dispatch"
    /\ \E b \in OpcodeCase :
         /\ ~isOperandSizePrefixCase(b)
         /\ node' = Append(node, b)
    /\ stage' = IF node' \in Leaves THEN "leaf" ELSE "opcode"
    /\ UNCHANGED <<code, opcodeOffset, mode, byte, opcode, modrm, sib, chosen, reader, operands,
                   touched, result>>

-----------------------------------------------------------------------------
(* The handler of a leaf.                                                   *)

candidates == Candidates(node, mode)

NoHandler ==
    /\ stage = "leaf"
    /\ candidatesKind(candidates) = "empty"
    /\ Exit(Unsupported(0))

NoModRmHandler ==
    /\ stage = "leaf"
    /\ candidatesKind(candidates) = "noModRm"
    /\ chosen' = CHOOSE e \in candidates : TRUE
    /\ reader' = opcodeOffset + Len(node)
    /\ stage' = "operands"
    /\ UNCHANGED <<code, opcodeOffset, mode, node, byte, opcode, modrm, sib, operands, touched, result>>

ModRmHandler ==
    /\ stage = "leaf"
    /\ candidatesKind(candidates) = "modRm"
    /\ stage' = "modrm"
    /\ UNCHANGED <<code, opcodeOffset, mode, node, byte, opcode, modrm, sib, chosen, reader, operands,
                   touched, result>>

ReadModRm ==
    /\ stage = "modrm"
    /\ CanRead
    /\ modrm' = PendingByte
    /\ Touch
    /\ stage' = "select"
    /\ UNCHANGED <<code, opcodeOffset, mode, node, byte, opcode, sib, chosen, reader, operands, result>>

\* Only the ModRM byte has been read when no form takes its reg field.
ModRmDispatch ==
    /\ stage = "select"
    /\ LET depths == Depths(registerModRmPosition(registerModRmDispatchCases(candidates)))
           handlers == Landing(depths, registerModRmTable(depths, RegField(modrm)))
       IN  IF handlers = {} THEN Exit(Unsupported(0))
           ELSE /\ chosen' = (CHOOSE h \in handlers : TRUE).form
                /\ reader' = opcodeOffset + Len(node) + 1
                /\ stage' = "operands"
                /\ UNCHANGED <<code, opcodeOffset, mode, node, byte, opcode, modrm, sib, operands,
                               touched, result>>

-----------------------------------------------------------------------------
(* Operands, in the order of the form.                                      *)

Bind(binding) ==
    /\ operands' = Append(operands, binding)
    /\ reader' = reader + pendingRead[2]
    /\ Touch
    /\ UNCHANGED <<code, stage, opcodeOffset, mode, node, byte, opcode, modrm, sib, chosen, result>>

decoding == stage = "operands" /\ operandsLeft

\* modrm.reg, opcode.reg and implicit.reg are bound without reading.
BindRegister ==
    /\ decoding
    /\ operand.kind \in {"modrm.reg", "opcode.reg", "implicit.reg"}
    /\ Bind(Register(operand.width,
              CASE operand.kind = "modrm.reg" -> RegisterCase(RegField(modrm))
                [] operand.kind = "opcode.reg" -> RegisterCase(opcode % 8)
                [] operand.kind = "implicit.reg" -> 0))

BindRegisterRm ==
    /\ decoding
    /\ operand.kind = "modrm.rm" /\ ~rmInMemory
    /\ IF operand.memoryOnly THEN Exit(Unsupported(0))
       ELSE Bind(Register(operand.width, RegisterCase(RmField(modrm))))

ReadSib ==
    /\ decoding
    /\ needsSib
    /\ CanRead
    /\ sib' = ByteAt(code, reader)
    /\ reader' = reader + 1
    /\ Touch
    /\ UNCHANGED <<code, stage, opcodeOffset, mode, node, byte, opcode, modrm, chosen, operands, result>>

\* The address is the sum of what the bytes name; nothing is added for a
\* missing base, index or displacement.
BindMemory ==
    /\ decoding
    /\ rmInMemory /\ ~needsSib
    /\ CanRead
    /\ LET noBase == Mod(modrm) = 0 /\ baseField = 5
           indexField == (sib \div 8) % 8
           noIndex == ~HasSib(modrm) \/ indexField = 4
       IN  Bind([kind |-> "mem", width |-> operand.width,
                 base |-> IF noBase THEN NoReg ELSE RegisterCase(baseField),
                 index |-> IF noIndex THEN NoReg ELSE RegisterCase(indexField),
                 scale |-> IF noIndex THEN 1 ELSE 2 ^ (sib \div 64),
                 disp |-> Displacement(reader, displacementWidth)])

BindImmediate ==
    /\ decoding
    /\ operand.kind = "imm"
    /\ CanRead
    /\ Bind(ImmediateBytes(operand, reader))

\* The target is resolved before the reader moves past the displacement.
BindRelative ==
    /\ decoding
    /\ operand.kind = "rel"
    /\ CanRead
    /\ Bind(Relative(operand, reader))

Complete ==
    /\ stage = "operands"
    /\ ~operandsLeft
    /\ Exit([kind |-> "ok", spec |-> chosen.spec, length |-> reader, operands |-> operands])

Next ==
    \/ DecodeFault
    \/ LoadOpcodeByte
    \/ UnsupportedOpcode
    \/ PrefixCase
    \/ OpcodeNode
    \/ NoHandler
    \/ NoModRmHandler
    \/ ModRmHandler
    \/ ReadModRm
    \/ ModRmDispatch
    \/ BindRegister
    \/ BindRegisterRm
    \/ ReadSib
    \/ BindMemory
    \/ BindImmediate
    \/ BindRelative
    \/ Complete

Spec == Init /\ [][Next]_vars

-----------------------------------------------------------------------------
(* Properties.                                                              *)

IsaResult == decodeIsaInstructionFromReader(code)

\* The two decoders of the program, the interpreter's nested switches and the
\* decoder that feeds the JIT and the direct backend, accept the same bytes,
\* and agree on the form, the length and every operand of what they accept.
DecodersAgree ==
    stage = "done" =>
        /\ result.kind = "ok" <=> IsaResult.kind = "ok"
        /\ result.kind = "ok" => result = IsaResult

\* The ISA decoder faults on the first byte that cannot be read, the interpreter
\* on the read that byte is in: at its first byte, or at the limit if it would
\* have passed that.  The two are the same where every read is of one byte, up
\* to the operands (whose reader is never 0); and never does the interpreter
\* take the fifteen-byte limit for the end of memory.
FaultAgrees(at) ==
    /\ IsaResult.kind = "fault" /\ IsaResult.at \in touched .. touched + 3
    /\ at \in {touched, maxX86InstructionLength}
    /\ reader = 0 => at = IsaResult.at
    /\ IsaResult.at = maxX86InstructionLength => at = maxX86InstructionLength

\* What the interpreter refuses the ISA decoder refuses too, and for the same
\* reason: a fault is a fault of both, and a form is unsupported for both,
\* unless the bytes run out after a ModRM byte whose reg field selects no form:
\* only the ISA decoder reads on to the addressing.
RefusalsAgree ==
    stage = "done" =>
        /\ result.kind = "fault" => FaultAgrees(result.at)
        /\ result.kind = "unsupported" =>
              \/ IsaResult.kind = "unsupported"
              \/ /\ IsaResult.kind = "fault"
                 /\ node \in Leaves
                 /\ modrm # NoByte /\ modRmByReg(candidates, RegField(modrm)) = {}

\* No byte is read past the end of memory or past the fifteenth, not even the
\* later bytes of a wide immediate or displacement, and an instruction that
\* is accepted has had every one of its bytes read.
ReadsStayInside ==
    /\ Readable(code, touched)
    /\ result.kind = "ok" => touched = result.length

\* The opcode bytes, the operand size and ModRM.reg tell the forms apart: at a
\* leaf no form needs a further opcode byte, either every form reads a ModRM
\* byte or there is only one, and no two of them overlap.
FormsDispatchable ==
    stage = "leaf" =>
        /\ \A path \in Leaves : ~IsStrictPrefix(node, path)
        /\ \A e, o \in candidates : e # o =>
              /\ ~instructionSpecsOverlap(e, o)
              /\ instructionReadsModRm(e.spec) /\ instructionReadsModRm(o.spec)
=============================================================================
