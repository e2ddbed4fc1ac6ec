---------------------------- MODULE DecoderProofs ----------------------------
(***************************************************************************)
(* What is proved of the interpreter's decoder, for every set of forms and *)
(* every memory.                                                           *)
(*                                                                         *)
(* The offsets its emitted code computes never run ahead of the bytes it   *)
(* has checked and read.  The opcode's offset grows by one with each       *)
(* prefix, the node of the tree by one with each opcode byte, the reader   *)
(* by each operand; what has been touched is always where they meet.       *)
(*                                                                         *)
(* It decodes what the ISA decoder decodes, if no two forms of the table   *)
(* can be chosen for the same bytes: after every step, what the emitted    *)
(* code has done is what the ISA decoder does with the same bytes.         *)
(***************************************************************************)
EXTENDS InterpreterDecoder, SetInduction, FiniteSetTheorems, TLAPS

Sequence(s) == s \in Seq(ToSet(s))
Stages == {"opcode", "dispatch", "leaf", "modrm", "select", "operands", "done"}

\* The bytes of each stage and of the registers it left behind.
DecoderTyped ==
    /\ code \in Seq(0 .. 255)
    /\ stage \in Stages
    /\ opcodeOffset \in Nat /\ reader \in Nat /\ touched \in Nat
    /\ Sequence(node) /\ Sequence(operands)
    /\ stage = "operands" => chosen \in Expanded
    /\ stage # "done" => result = Nothing

\* An opcode byte is read and dispatched on at a node that has a switch.
AtSwitch == stage \in {"opcode", "dispatch"} => node \in Nodes \ Leaves

\* How far the bytes have been read, by what the emitted code does next.
NextByte == opcodeOffset + Len(node)
ReadSoFar ==
    /\ stage \in {"opcode", "leaf", "modrm"} => touched = NextByte
    /\ stage \in {"dispatch", "select"} => touched = NextByte + 1
    /\ stage = "operands" => touched = reader

DecoderInv == DecoderTyped /\ AtSwitch /\ ReadSoFar /\ ReadsStayInside

-----------------------------------------------------------------------------
(* Operators.                                                               *)

\* Appending makes any sequence one longer, whatever is appended.
LEMMA AppendLonger ==
    ASSUME NEW s, Sequence(s), NEW x
    PROVE  Sequence(Append(s, x)) /\ Len(Append(s, x)) = Len(s) + 1 /\ Len(s) \in Nat
<1> DEFINE S == ToSet(s) \cup {x}
           t == Append(s, x)
<1>1. s \in Seq(S) /\ x \in S
  BY DEF Sequence
<1>2. t \in Seq(S) /\ Len(t) = Len(s) + 1 /\ Len(s) \in Nat
  <2> HIDE DEF S
  <2> QED BY <1>1
<1>3. t \in Seq(ToSet(t))
  <2> HIDE DEF t
  <2>1. Len(t) \in Nat /\ t \in [1 .. Len(t) -> S]
    BY <1>2
  <2>2. t \in [1 .. Len(t) -> ToSet(t)]
    BY <2>1 DEF ToSet
  <2> QED BY <2>1, <2>2
<1> QED BY <1>2, <1>3 DEF Sequence

\* The greater of two numbers, as FiniteSetsExt states it.
LEMMA MaxOfTwo ==
    ASSUME NEW a \in Nat, NEW b \in Nat, a <= b
    PROVE  Max({a, b}) = b
<1>1. \A x \in {a, b} : (\A y \in {a, b} : x >= y) <=> x = b
  OBVIOUS
<1> QED BY <1>1 DEF Max

\* A form takes whole bytes for an operand, and none but an immediate or a
\* relative target has bytes of its own.
LEMMA OperandBytes ==
    ASSUME NEW o \in OperandSpecs
    PROVE  /\ EncodedBytes(o) \in Nat
           /\ o.kind \notin {"imm", "rel"} => EncodedBytes(o) = 0
BY DEF OperandSpecs, EncodedBytes, Widths

LEMMA DisplacementBytes ==
    displacementWidth \div 8 \in Nat
<1>1. displacementWidth \in {0, 8, 32}
  BY DEF displacementWidth, DisplacementWidth
<1> QED BY <1>1

\* A form of the tree is one of the forms it was built from, so its operands
\* are operands.
LEMMA ExpandedForm ==
    ASSUME NEW e \in Expanded
    PROVE  e.spec.operands \in Seq(OperandSpecs)
<1>1. PICK f \in Instructions : e \in expandInstructionSpec(f)
  BY DEF Expanded
<1>2. e.spec = f
  BY <1>1 DEF expandInstructionSpec
<1> QED BY <1>2, InstructionsAssumption DEF IsForm

\* A form of the tree: its opcode has one or two bytes, the register in its opcode is
\* in the low bits of the last byte, and its address is where it must be.
LEMMA ExpandedOpcode ==
    ASSUME NEW e \in Expanded
    PROVE  /\ e.opcode \in Seq(Int) /\ Len(e.opcode) # 0 /\ Len(e.opcode) <= 2
           /\ e.lowBits \in Reg3
           /\ \A i \in DOMAIN e.spec.operands :
                e.spec.operands[i].kind = "opcode.reg" => LastByte(e.opcode) % 8 = e.lowBits
           /\ instructionReadsModRm(e.spec) => AddressFirst(e.spec)
<1>1. PICK f \in Instructions : e \in expandInstructionSpec(f)
  BY DEF Expanded
<1> DEFINE last == Len(f.opcode)
<1>2. PICK low \in (IF f.plusReg THEN Reg3 ELSE {0}) :
        e = [spec |-> f, opcode |-> [f.opcode EXCEPT ![last] = @ + low], lowBits |-> low]
  BY <1>1 DEF expandInstructionSpec
<1>3. /\ f.opcode \in Seq(0 .. 255) \ {<<>>}
      /\ f.plusReg => LastByte(f.opcode) % 8 = 0
      /\ (\E i \in DOMAIN f.operands : f.operands[i].kind = "opcode.reg") => f.plusReg
  BY InstructionsAssumption DEF IsForm
<1>4. low \in 0 .. 7 /\ e.spec = f /\ e.lowBits = low
      /\ e.opcode = [f.opcode EXCEPT ![last] = f.opcode[last] + low]
  BY <1>2 DEF Reg3
<1> DEFINE S == 0 .. 255
           x == f.opcode[last]
<1>5. last \in Nat \ {0} /\ last \in 1 .. last /\ f.opcode \in [1 .. last -> S] /\ x \in S
  <2>1. f.opcode \in Seq(S) \ {<<>>}
    BY <1>3
  <2> HIDE DEF S
  <2> QED BY <2>1
<1>6. S \subseteq Int /\ x + low \in Int
  <2>1. x \in 0 .. 255
    BY <1>5
  <2> HIDE DEF x
  <2> QED BY <1>4, <2>1
<1> HIDE DEF last, S, x
<1>7. e.opcode \in [1 .. last -> Int] /\ e.opcode[last] = x + low
  <2>1. e.opcode = [f.opcode EXCEPT ![last] = x + low]
    BY <1>4 DEF x
  <2> QED BY <1>5, <1>6, <2>1
<1>8. e.opcode \in Seq(Int) /\ Len(e.opcode) = last
  BY <1>5, <1>7
<1>9. f.plusReg => LastByte(e.opcode) % 8 = low
  <2>1. LastByte(e.opcode) = x + low /\ LastByte(f.opcode) = x
    BY <1>7, <1>8 DEF LastByte, last, x
  <2>2. x \in 0 .. 255
    BY <1>5 DEF S
  <2>3. x % 8 = 0 => (x + low) % 8 = low
    BY <1>4, <2>2
  <2> QED BY <1>3, <2>1, <2>3
<1>10. last <= 2
  BY OpcodeAssumption DEF last
<1> QED BY <1>3, <1>4, <1>5, <1>8, <1>9, <1>10, AddressAssumption DEF Reg3

LEMMA LeavesNotEmpty == <<>> \notin Leaves
<1>1. \A e \in Expanded : e.opcode # <<>>
  BY ExpandedOpcode
<1> QED BY <1>1 DEF Leaves

\* A leaf is a node.
LEMMA LeavesAreNodes == Leaves \subseteq Nodes
<1> SUFFICES ASSUME NEW path \in Leaves PROVE path \in Nodes
  OBVIOUS
<1>1. path \in Seq(Int)
  BY ExpandedOpcode DEF Leaves
<1>2. path = SubSeq(path, 1, Len(path)) /\ Len(path) \in 0 .. Len(path)
  BY <1>1
<1>3. path \in {SubSeq(path, 1, n) : n \in 0 .. Len(path)}
  BY <1>2
<1> QED BY <1>3 DEF Nodes

\* A node that has a switch of its own is the root, or one byte deep: its byte is
\* read right behind what has been dispatched on.
LEMMA SwitchNode ==
    ASSUME node \in Nodes \ Leaves
    PROVE  opcodeByteOffset = opcodeOffset + Len(node)
<1>1. CASE node = <<>>
  BY <1>1 DEF opcodeByteOffset
<1>2. CASE node # <<>>
  <2>1. PICK path \in Leaves : \E n \in 0 .. Len(path) : node = SubSeq(path, 1, n)
    BY <1>2 DEF Nodes
  <2>2. PICK n \in 0 .. Len(path) : node = SubSeq(path, 1, n)
    BY <2>1
  <2>3. path \in Seq(Int) /\ Len(path) \in Nat /\ Len(path) <= 2
    BY ExpandedOpcode DEF Leaves
  <2>4. node \in Seq(Int) /\ Len(node) = n
    BY <2>2, <2>3
  <2>5. n # Len(path)
    <3>1. path = SubSeq(path, 1, Len(path))
      BY <2>3
    <3> QED BY <2>2, <3>1
  <2>6. n # 0
    BY <1>2, <2>4
  <2>7. Len(node) = 1
    BY <2>3, <2>4, <2>5, <2>6
  <2> QED BY <1>2, <2>7 DEF opcodeByteOffset
<1> QED BY <1>1, <1>2

\* A byte with a case of its own leads to a node, if it is not a prefix.
LEMMA CaseIsNode ==
    ASSUME node \in Nodes \ Leaves, NEW b \in OpcodeCase, ~isOperandSizePrefixCase(b)
    PROVE  Append(node, b) \in Nodes
<1>1. DOMAIN Switches[node] = dispatchBytesForContext(node)
  BY DEF Switches, Depths, casePosition
<1>2. b \in dispatchBytesForContext(node)
  BY <1>1 DEF OpcodeCase, Landing
<1> QED BY <1>2 DEF dispatchBytesForContext, dispatchBytes, isOperandSizePrefixCase

-----------------------------------------------------------------------------
(* Reads.                                                                   *)

\* While operands are decoded the pending read begins at the reader.
LEMMA OperandRead ==
    ASSUME DecoderInv, stage = "operands"
    PROVE  /\ pendingRead[2] \in Nat
           /\ pendingRead[2] # 0 => pendingRead[1] = reader
           /\ operandsLeft => operand \in OperandSpecs
<1>1. operandsLeft => operand \in OperandSpecs
  <2>1. chosen.spec.operands \in Seq(OperandSpecs)
    BY ExpandedForm DEF DecoderInv, DecoderTyped
  <2>2. Len(operands) \in Nat
    BY AppendLonger DEF DecoderInv, DecoderTyped
  <2> QED BY <2>1, <2>2 DEF operandsLeft, operand
<1>2. pendingRead = operandRead
  BY DEF pendingRead
<1>3. CASE ~operandsLeft
  BY <1>1, <1>2, <1>3 DEF operandRead, NoRead
<1>4. CASE operandsLeft /\ needsSib
  BY <1>1, <1>2, <1>4 DEF operandRead
<1>5. CASE operandsLeft /\ ~needsSib /\ rmInMemory
  BY <1>1, <1>2, <1>5, DisplacementBytes DEF operandRead
<1>6. CASE operandsLeft /\ ~needsSib /\ ~rmInMemory
  BY <1>1, <1>2, <1>6, OperandBytes DEF operandRead
<1> QED BY <1>3, <1>4, <1>5, <1>6

\* What a read that is let through touches: as far as it goes, and inside.
LEMMA TouchedByRead ==
    ASSUME DecoderInv, CanRead, Touch,
           pendingRead[2] \in Nat,
           pendingRead[2] # 0 => pendingRead[1] = touched
    PROVE  /\ touched' = touched + pendingRead[2]
           /\ Readable(code, touched')
<1> DEFINE read == pendingRead
<1>1. touched \in Nat /\ Len(code) \in Nat /\ Readable(code, touched)
  BY DEF DecoderInv, DecoderTyped, ReadsStayInside
<1>2. CASE read[2] = 0
  BY <1>1, <1>2 DEF Touch
<1>3. CASE read[2] # 0
  <2>1. touched + read[2] \in Nat /\ touched <= touched + read[2]
    BY <1>1
  <2>2. touched' = touched + read[2]
    BY <1>1, <1>3, <2>1, MaxOfTwo DEF Touch
  <2>3. ~tooLong(read) /\ ~outOfBounds(read)
    BY <1>3 DEF CanRead, Fails
  <2>4. touched + read[2] <= maxX86InstructionLength /\ touched + read[2] <= Len(code)
    BY <1>1, <1>3, <2>1, <2>3 DEF tooLong, outOfBounds, maxX86InstructionLength
  <2> QED BY <2>2, <2>4 DEF Readable
<1> QED BY <1>2, <1>3

-----------------------------------------------------------------------------
(* Steps.                                                                   *)

\* Leaving the module changes neither what was read nor where.
LEMMA ExitKeeps ==
    ASSUME DecoderInv, NEW how, Exit(how),
           how.kind = "ok" => touched = how.length
    PROVE  DecoderInv'
BY DEF DecoderInv, DecoderTyped, AtSwitch, ReadSoFar, ReadsStayInside, Exit, Stages

LEMMA UnsupportedKeeps ==
    ASSUME DecoderInv, NEW n, Exit(Unsupported(n))
    PROVE  DecoderInv'
<1>1. Unsupported(n).kind # "ok"
  BY DEF Unsupported
<1> QED BY <1>1, ExitKeeps

\* An operand is bound: the reader passes the bytes that were read for it.
LEMMA BindKeeps ==
    ASSUME DecoderInv, stage = "operands", CanRead, NEW binding, Bind(binding)
    PROVE  DecoderInv'
<1>1. touched = reader /\ reader \in Nat
  BY DEF DecoderInv, DecoderTyped, ReadSoFar
<1>2. pendingRead[2] \in Nat /\ (pendingRead[2] # 0 => pendingRead[1] = touched)
  BY <1>1, OperandRead
<1>3. touched' = touched + pendingRead[2] /\ Readable(code, touched')
  BY <1>2, TouchedByRead DEF Bind
<1>4. reader' = touched' /\ reader' \in Nat
  BY <1>1, <1>2, <1>3 DEF Bind
<1>5. Sequence(operands')
  BY AppendLonger DEF Bind, DecoderInv, DecoderTyped
<1> QED BY <1>3, <1>4, <1>5 DEF Bind, DecoderInv, DecoderTyped, AtSwitch, ReadSoFar, ReadsStayInside, Nothing, Stages

\* The two reads at the next byte.
LEMMA ByteRead ==
    ASSUME DecoderInv, stage \in {"opcode", "modrm"}, CanRead, Touch
    PROVE  /\ touched' = NextByte + 1 /\ touched' \in Nat
           /\ Readable(code, touched')
<1>1. pendingRead = <<NextByte, 1>>
  BY SwitchNode DEF pendingRead, modRmOffset, NextByte, DecoderInv, AtSwitch
<1>2. touched = NextByte /\ touched \in Nat
  BY DEF DecoderInv, DecoderTyped, ReadSoFar
<1>3. pendingRead[2] = 1 /\ pendingRead[1] = touched
  BY <1>1, <1>2
<1> QED BY <1>2, <1>3, TouchedByRead

LEMMA DecodeFaultKeeps ==
    ASSUME DecoderInv, DecodeFault PROVE DecoderInv'
<1>1. PICK how : Exit(how) /\ how.kind = "fault"
  BY DEF DecodeFault
<1> QED BY <1>1, ExitKeeps

LEMMA LoadOpcodeByteKeeps ==
    ASSUME DecoderInv, LoadOpcodeByte PROVE DecoderInv'
<1>1. touched' = NextByte + 1 /\ touched' \in Nat /\ Readable(code, touched')
  BY ByteRead DEF LoadOpcodeByte
<1> QED BY <1>1 DEF LoadOpcodeByte, DecoderInv, DecoderTyped, AtSwitch, ReadSoFar, ReadsStayInside, NextByte,
                    Nothing, Stages

LEMMA PrefixCaseKeeps ==
    ASSUME DecoderInv, PrefixCase PROVE DecoderInv'
<1>1. Len(node) \in Nat /\ opcodeOffset \in Nat /\ touched = NextByte + 1
  BY AppendLonger DEF PrefixCase, DecoderInv, DecoderTyped, ReadSoFar
<1>2. touched = NextByte'
  BY <1>1 DEF PrefixCase, NextByte
<1> QED BY <1>1, <1>2 DEF PrefixCase, DecoderInv, DecoderTyped, AtSwitch, ReadSoFar, ReadsStayInside,
                          NextByte, Nothing, Stages

LEMMA OpcodeNodeKeeps ==
    ASSUME DecoderInv, OpcodeNode PROVE DecoderInv'
<1>1. PICK b : node' = Append(node, b)
  BY DEF OpcodeNode
<1>2. Sequence(node') /\ Len(node') = Len(node) + 1 /\ Len(node) \in Nat
  BY <1>1, AppendLonger DEF DecoderInv, DecoderTyped
<1>3. touched = NextByte + 1 /\ opcodeOffset \in Nat
  BY DEF OpcodeNode, DecoderInv, DecoderTyped, ReadSoFar
<1>4. touched = NextByte'
  BY <1>2, <1>3 DEF OpcodeNode, NextByte
<1>5. stage' \in {"leaf", "opcode"} /\ AtSwitch'
  <2>1. node \in Nodes \ Leaves
    BY DEF OpcodeNode, DecoderInv, AtSwitch
  <2>2. node' \in Nodes
    BY <2>1, CaseIsNode DEF OpcodeNode
  <2> QED BY <2>2 DEF OpcodeNode, AtSwitch
<1> QED BY <1>2, <1>4, <1>5 DEF OpcodeNode, DecoderInv, DecoderTyped, AtSwitch, ReadSoFar, ReadsStayInside,
                                NextByte, Nothing, Stages

\* The one form of a leaf that reads no ModRM byte.
LEMMA NoModRmHandlerKeeps ==
    ASSUME DecoderInv, NoModRmHandler PROVE DecoderInv'
<1>1. candidates # {}
  BY DEF NoModRmHandler, candidatesKind
<1>2. chosen' \in Expanded
  BY <1>1 DEF NoModRmHandler, candidates, Candidates
<1>3. touched = NextByte /\ reader' = NextByte /\ touched \in Nat
  BY DEF NoModRmHandler, DecoderInv, DecoderTyped, ReadSoFar, NextByte
<1> QED BY <1>2, <1>3 DEF NoModRmHandler, DecoderInv, DecoderTyped, AtSwitch, ReadSoFar, ReadsStayInside,
                          Nothing, Stages

LEMMA ModRmHandlerKeeps ==
    ASSUME DecoderInv, ModRmHandler PROVE DecoderInv'
BY DEF ModRmHandler, DecoderInv, DecoderTyped, AtSwitch, ReadSoFar, ReadsStayInside, NextByte, Nothing, Stages

LEMMA ReadModRmKeeps ==
    ASSUME DecoderInv, ReadModRm PROVE DecoderInv'
<1>1. touched' = NextByte + 1 /\ touched' \in Nat /\ Readable(code, touched')
  BY ByteRead DEF ReadModRm
<1> QED BY <1>1 DEF ReadModRm, DecoderInv, DecoderTyped, AtSwitch, ReadSoFar, ReadsStayInside, NextByte,
                    Nothing, Stages

\* A case of the switch over ModRM.reg stands for a candidate.
LEMMA ModRmDispatchKeeps ==
    ASSUME DecoderInv, ModRmDispatch PROVE DecoderInv'
<1> DEFINE cases == registerModRmDispatchCases(candidates)
           depths == Depths(registerModRmPosition(cases))
           handlers == Landing(depths, registerModRmTable(depths, RegField(modrm)))
<1>1. CASE handlers = {}
  BY <1>1, UnsupportedKeeps DEF ModRmDispatch
<1>2. CASE handlers # {}
  <2>1. /\ chosen' = (CHOOSE h \in handlers : TRUE).form
        /\ reader' = opcodeOffset + Len(node) + 1
        /\ stage = "select" /\ stage' = "operands"
        /\ UNCHANGED <<code, opcodeOffset, mode, node, byte, opcode, modrm, sib, operands,
                       touched, result>>
    BY <1>2 DEF ModRmDispatch
  <2>2. PICK h \in handlers : chosen' = h.form
    <3> HIDE DEF handlers
    <3> QED BY <1>2, <2>1
  <2>3. h \in cases
    <3> HIDE DEF cases
    <3> QED BY <2>2 DEF Landing, Depths, registerModRmPosition
  <2>4. chosen' \in Expanded
    BY <2>2, <2>3 DEF registerModRmDispatchCases, candidates, Candidates
  <2>5. touched = NextByte + 1 /\ reader' = NextByte + 1 /\ touched \in Nat
    BY <2>1 DEF DecoderInv, DecoderTyped, ReadSoFar, NextByte
  <2> HIDE DEF handlers
  <2> QED BY <2>1, <2>4, <2>5 DEF DecoderInv, DecoderTyped, AtSwitch, ReadSoFar, ReadsStayInside, Nothing, Stages
<1> QED BY <1>1, <1>2

\* An operand that has no bytes of its own is bound without a read.
LEMMA BindWithoutBytes ==
    ASSUME DecoderInv, decoding, ~rmInMemory, operand.kind \notin {"imm", "rel"}
    PROVE  CanRead
<1>1. stage = "operands" /\ operandsLeft /\ operand \in OperandSpecs
  BY OperandRead DEF decoding
<1>2. pendingRead = <<reader, EncodedBytes(operand)>>
  BY <1>1 DEF pendingRead, operandRead, needsSib
<1> QED BY <1>1, <1>2, OperandBytes DEF CanRead, Fails

LEMMA BindRegisterKeeps ==
    ASSUME DecoderInv, BindRegister PROVE DecoderInv'
<1>1. decoding /\ ~rmInMemory /\ operand.kind \notin {"imm", "rel"} /\ stage = "operands"
  BY DEF BindRegister, rmInMemory, decoding
<1>2. PICK binding : Bind(binding)
  BY DEF BindRegister
<1> QED BY <1>1, <1>2, BindWithoutBytes, BindKeeps

LEMMA BindRegisterRmKeeps ==
    ASSUME DecoderInv, BindRegisterRm PROVE DecoderInv'
<1>1. decoding /\ ~rmInMemory /\ operand.kind \notin {"imm", "rel"} /\ stage = "operands"
  BY DEF BindRegisterRm, decoding
<1>2. CASE operand.memoryOnly
  BY <1>2, UnsupportedKeeps DEF BindRegisterRm
<1>3. CASE ~operand.memoryOnly
  <2>1. PICK binding : Bind(binding)
    BY <1>3 DEF BindRegisterRm
  <2> QED BY <1>1, <2>1, BindWithoutBytes, BindKeeps
<1> QED BY <1>2, <1>3

LEMMA ReadSibKeeps ==
    ASSUME DecoderInv, ReadSib PROVE DecoderInv'
<1>1. stage = "operands" /\ operandsLeft /\ needsSib /\ CanRead /\ Touch
  BY DEF ReadSib, decoding
<1>2. touched = reader /\ reader \in Nat
  BY <1>1 DEF DecoderInv, DecoderTyped, ReadSoFar
<1>3. pendingRead = <<reader, 1>>
  BY <1>1 DEF pendingRead, operandRead
<1>4. pendingRead[2] = 1 /\ pendingRead[1] = touched
  BY <1>2, <1>3
<1>5. touched' = touched + 1 /\ Readable(code, touched')
  BY <1>1, <1>4, TouchedByRead
<1> QED BY <1>1, <1>2, <1>5 DEF ReadSib, DecoderInv, DecoderTyped, AtSwitch, ReadSoFar, ReadsStayInside,
                                Nothing, Stages

LEMMA BindBytesKeeps ==
    ASSUME DecoderInv, BindMemory \/ BindImmediate \/ BindRelative PROVE DecoderInv'
<1>1. stage = "operands" /\ CanRead
  BY DEF BindMemory, BindImmediate, BindRelative, decoding
<1>2. PICK binding : Bind(binding)
  BY DEF BindMemory, BindImmediate, BindRelative
<1> QED BY <1>1, <1>2, BindKeeps

LEMMA CompleteKeeps ==
    ASSUME DecoderInv, Complete PROVE DecoderInv'
<1> DEFINE how == [kind |-> "ok", spec |-> chosen.spec, length |-> reader, operands |-> operands]
<1>1. touched = reader
  BY DEF Complete, DecoderInv, ReadSoFar
<1>2. Exit(how) /\ how.length = reader
  BY DEF Complete
<1> HIDE DEF how
<1> QED BY <1>1, <1>2, ExitKeeps

-----------------------------------------------------------------------------
(* The specification.                                                       *)

LEMMA DecoderInit ==
    Init => DecoderInv
<1> SUFFICES ASSUME Init PROVE DecoderInv
  OBVIOUS
<1>1. code \in Seq(0 .. 255)
  BY ImagesAssumption DEF Init
<1>2. Sequence(<<>>) /\ Len(<<>>) = 0
  BY DEF Sequence
<1>3. <<>> \in Nodes \ Leaves
  BY LeavesNotEmpty DEF Nodes
<1> QED BY <1>1, <1>2, <1>3 DEF Init, DecoderInv, DecoderTyped, AtSwitch, ReadSoFar, ReadsStayInside, Readable,
                          NextByte, Nothing, Stages, maxX86InstructionLength

LEMMA DecoderStep ==
    DecoderInv /\ [Next]_vars => DecoderInv'
<1> SUFFICES ASSUME DecoderInv, [Next]_vars PROVE DecoderInv'
  OBVIOUS
<1>1. CASE DecodeFault BY <1>1, DecodeFaultKeeps
<1>2. CASE LoadOpcodeByte BY <1>2, LoadOpcodeByteKeeps
<1>3. CASE UnsupportedOpcode BY <1>3, UnsupportedKeeps DEF UnsupportedOpcode
<1>4. CASE PrefixCase BY <1>4, PrefixCaseKeeps
<1>5. CASE OpcodeNode BY <1>5, OpcodeNodeKeeps
<1>6. CASE NoHandler BY <1>6, UnsupportedKeeps DEF NoHandler
<1>7. CASE NoModRmHandler BY <1>7, NoModRmHandlerKeeps
<1>8. CASE ModRmHandler BY <1>8, ModRmHandlerKeeps
<1>9. CASE ReadModRm BY <1>9, ReadModRmKeeps
<1>10. CASE ModRmDispatch BY <1>10, ModRmDispatchKeeps
<1>11. CASE BindRegister BY <1>11, BindRegisterKeeps
<1>12. CASE BindRegisterRm BY <1>12, BindRegisterRmKeeps
<1>13. CASE ReadSib BY <1>13, ReadSibKeeps
<1>14. CASE BindMemory \/ BindImmediate \/ BindRelative BY <1>14, BindBytesKeeps
<1>15. CASE Complete BY <1>15, CompleteKeeps
<1>16. CASE UNCHANGED vars
  BY <1>16 DEF vars, DecoderInv, DecoderTyped, AtSwitch, ReadSoFar, ReadsStayInside, NextByte
<1> QED BY <1>1, <1>2, <1>3, <1>4, <1>5, <1>6, <1>7, <1>8, <1>9, <1>10, <1>11, <1>12, <1>13, <1>14,
           <1>15, <1>16 DEF Next

\* The interpreter's decoder reads no byte past the end of memory or past the
\* fifteenth, whatever the forms, the bytes and the number of prefixes; and
\* the length it reports for an instruction is the number of bytes it read.
THEOREM ReadsInside == Spec => []ReadsStayInside
<1>1. DecoderInv => ReadsStayInside
  BY DEF DecoderInv
<1> QED BY DecoderInit, DecoderStep, <1>1, PTL DEF Spec

-----------------------------------------------------------------------------
(* Lemmas on least elements, depths of cases and offsets of operands.       *)

\* What can be read up to an offset can be read up to an earlier one.
LEMMA EarlierReadable ==
    ASSUME NEW c, Len(c) \in Nat, NEW a \in Nat, NEW b \in Nat, a <= b, Readable(c, b)
    PROVE  Readable(c, a)
BY DEF Readable, maxX86InstructionLength

LEMMA MinIs ==
    ASSUME NEW S \in SUBSET Int, NEW x \in S, \A y \in S : x <= y
    PROVE  Min(S) = x
<1>1. \A z \in S : (\A y \in S : z <= y) <=> z = x
  OBVIOUS
<1> QED BY <1>1 DEF Min

LEMMA MinExists ==
    ASSUME NEW S \in SUBSET Nat, S # {}
    PROVE  Min(S) \in S /\ \A y \in S : Min(S) <= y
<1> DEFINE Below == {n \in Nat : \A y \in S : n <= y}
<1>1. \E x \in S : \A y \in S : x <= y
  <2>1. SUFFICES ASSUME ~\E x \in S : \A y \in S : x <= y
                 PROVE  FALSE
    OBVIOUS
  <2>2. 0 \in Below
    OBVIOUS
  <2>3. ASSUME NEW n \in Nat, n \in Below
        PROVE  n + 1 \in Below
    <3>1. n \notin S
      BY <2>1, <2>3
    <3> QED BY <2>3, <3>1
  <2>4. Nat \subseteq Below
    <3> HIDE DEF Below
    <3> QED BY <2>2, <2>3, NatSetInduction
  <2>5. PICK y \in S : TRUE
    OBVIOUS
  <2>6. y + 1 \in Below
    BY <2>4
  <2> QED BY <2>6
<1> QED BY <1>1 DEF Min

\* Cases at different positions have different depths, all of them less than
\* the depth of the default.
LEMMA CasesApart ==
    ASSUME NEW positions, IsFiniteSet(DOMAIN positions),
           \A b \in DOMAIN positions : positions[b] \in Int,
           \A b, c \in DOMAIN positions : positions[b] = positions[c] => b = c,
           NEW depths, depths = Depths(positions)
    PROVE  /\ DOMAIN depths = DOMAIN positions
           /\ \A b \in DOMAIN positions : Landing(depths, depths[b]) = {b}
           /\ Landing(depths, Cardinality(DOMAIN positions)) = {}
<1> DEFINE D == DOMAIN positions
           Behind(b) == {c \in D : positions[c] > positions[b]}
<1>1. DOMAIN depths = D /\ \A b \in D : depths[b] = Cardinality(Behind(b))
  BY DEF Depths
<1>2. ASSUME NEW b \in D
      PROVE  IsFiniteSet(Behind(b)) /\ Cardinality(Behind(b)) # Cardinality(D)
  <2>1. Behind(b) \in SUBSET D /\ Behind(b) # D
    OBVIOUS
  <2> QED BY <2>1, FS_Subset
<1>3. ASSUME NEW b \in D, NEW c \in D, positions[b] < positions[c]
      PROVE  Cardinality(Behind(b)) # Cardinality(Behind(c))
  <2>1. Behind(c) \in SUBSET Behind(b) /\ c \in Behind(b) /\ c \notin Behind(c)
    BY <1>3
  <2>2. IsFiniteSet(Behind(b))
    BY <1>2
  <2> HIDE DEF Behind
  <2> QED BY <2>1, <2>2, FS_Subset
<1>4. ASSUME NEW b \in D, NEW c \in D, depths[b] = depths[c]
      PROVE  b = c
  <2>1. Cardinality(Behind(b)) = Cardinality(Behind(c))
    BY <1>1, <1>4
  <2>2. ~(positions[b] < positions[c]) /\ ~(positions[c] < positions[b])
    <3> HIDE DEF Behind
    <3> QED BY <1>3, <2>1
  <2>3. positions[b] = positions[c]
    BY <2>2
  <2> QED BY <2>3
<1> HIDE DEF Behind
<1> QED BY <1>1, <1>2, <1>4 DEF Landing

-----------------------------------------------------------------------------

\* Where an operand begins: the recursion is well founded.
LEMMA OperandAtEquation ==
    ASSUME NEW list, Len(list) \in Nat, NEW start
    PROVE  /\ OperandAt(list, start, 1) = start
           /\ \A n \in 1 .. Len(list) :
                OperandAt(list, start, n + 1) = OperandAt(list, start, n) + EncodedBytes(list[n])
<1> DEFINE Step(f, i) == IF i = 1 THEN start ELSE f[i - 1] + EncodedBytes(list[i - 1])
           Solves(n, f) == f = [i \in 1 .. n + 1 |-> Step(f, i)]
           S == {n \in Nat : \E f : Solves(n, f)}
<1>1. 0 \in S
  <2> DEFINE f == [i \in 1 .. 0 + 1 |-> start]
  <2>1. \A i \in 1 .. 0 + 1 : f[i] = Step(f, i)
    OBVIOUS
  <2>2. f = [i \in 1 .. 0 + 1 |-> f[i]]
    OBVIOUS
  <2>3. Solves(0, f)
    <3> HIDE DEF f, Step
    <3> QED BY <2>1, <2>2
  <2> HIDE DEF f, Solves
  <2> QED BY <2>3
<1>2. ASSUME NEW n \in Nat, n \in S
      PROVE  n + 1 \in S
  <2>1. PICK f : Solves(n, f)
    BY <1>2
  <2> DEFINE g == [i \in 1 .. n + 1 + 1 |-> IF i = n + 2 THEN Step(f, i) ELSE f[i]]
  <2>2. ASSUME NEW i \in 1 .. n + 1 + 1
        PROVE  g[i] = Step(g, i)
    <3>1. CASE i = n + 2
      <4>1. g[i] = Step(f, i) /\ i # 1 /\ g[i - 1] = f[i - 1]
        BY <3>1
      <4> QED BY <4>1
    <3>2. CASE i # n + 2 /\ i # 1
      <4>1. g[i] = f[i] /\ g[i - 1] = f[i - 1] /\ i \in 1 .. n + 1
        BY <3>2
      <4>2. f[i] = Step(f, i)
        BY <2>1, <4>1
      <4> HIDE DEF g
      <4> QED BY <3>2, <4>1, <4>2
    <3>3. CASE i = 1
      <4>1. g[i] = f[i] /\ i \in 1 .. n + 1
        BY <3>3
      <4>2. f[i] = Step(f, i)
        BY <2>1, <4>1
      <4> HIDE DEF g
      <4> QED BY <3>3, <4>1, <4>2
    <3> QED BY <3>1, <3>2, <3>3
  <2>3. g = [i \in 1 .. n + 1 + 1 |-> g[i]]
    OBVIOUS
  <2>4. Solves(n + 1, g)
    <3> HIDE DEF g, Step
    <3> QED BY <2>2, <2>3
  <2> HIDE DEF g, Solves
  <2> QED BY <2>4
<1>3. \E f : Solves(Len(list), f)
  <2> HIDE DEF S
  <2>1. Len(list) \in S
    BY <1>1, <1>2, NatSetInduction
  <2> QED BY <2>1 DEF S
<1> DEFINE at == CHOOSE f : Solves(Len(list), f)
<1>4. Solves(Len(list), at)
  BY <1>3
<1>5. \A n : OperandAt(list, start, n) = at[n]
  BY DEF OperandAt
<1> HIDE DEF at
<1>6. at[1] = start
  BY <1>4
<1>7. ASSUME NEW n \in 1 .. Len(list)
      PROVE  at[n + 1] = at[n] + EncodedBytes(list[n])
  <2>1. n + 1 \in 1 .. Len(list) + 1 /\ n + 1 # 1 /\ (n + 1) - 1 = n
    OBVIOUS
  <2>2. at[n + 1] = Step(at, n + 1)
    BY <1>4, <2>1
  <2> QED BY <2>1, <2>2
<1> QED BY <1>5, <1>6, <1>7

\* It is a number, and no operand begins before the first or behind the end.
LEMMA OperandsAscend ==
    ASSUME NEW list \in Seq(OperandSpecs), NEW start \in Nat
    PROVE  /\ \A n \in 1 .. Len(list) + 1 :
                OperandAt(list, start, n) \in Nat /\ start <= OperandAt(list, start, n)
           /\ \A n \in 1 .. Len(list) + 1 :
                OperandAt(list, start, n) <= OperandAt(list, start, Len(list) + 1)
<1> DEFINE at(n) == OperandAt(list, start, n)
           L == Len(list)
<1>1. L \in Nat /\ \A n \in 1 .. L : list[n] \in OperandSpecs
  OBVIOUS
<1>2. at(1) = start /\ \A n \in 1 .. L : at(n + 1) = at(n) + EncodedBytes(list[n])
  BY <1>1, OperandAtEquation
<1>3. \A n \in 1 .. L : EncodedBytes(list[n]) \in Nat
  BY <1>1, OperandBytes
<1> HIDE DEF at, L
<1> DEFINE S == {n \in Nat : n <= L => at(n + 1) \in Nat /\ start <= at(n + 1)}
           T == {d \in Nat : d <= L => at(L + 1 - d) <= at(L + 1)}
<1>4. Nat \subseteq S
  <2>1. 0 \in S
    BY <1>2
  <2>2. ASSUME NEW n \in Nat, n \in S PROVE n + 1 \in S
    <3>1. SUFFICES ASSUME n + 1 <= L
                   PROVE  at(n + 1 + 1) \in Nat /\ start <= at(n + 1 + 1)
      OBVIOUS
    <3>2. n + 1 \in 1 .. L /\ at(n + 1) \in Nat /\ start <= at(n + 1)
      BY <1>1, <2>2, <3>1
    <3>3. EncodedBytes(list[n + 1]) \in Nat
      BY <1>3, <3>2
    <3>4. at(n + 1 + 1) = at(n + 1) + EncodedBytes(list[n + 1])
      BY <1>2, <3>2
    <3> QED BY <3>2, <3>3, <3>4
  <2> HIDE DEF S
  <2> QED BY <2>1, <2>2, NatSetInduction
<1>5. ASSUME NEW n \in 1 .. L + 1 PROVE at(n) \in Nat /\ start <= at(n)
  <2>1. n - 1 \in Nat /\ n - 1 <= L /\ (n - 1) + 1 = n
    BY <1>1
  <2>2. n - 1 \in S
    BY <1>4, <2>1
  <2> QED BY <2>1, <2>2
<1>6. Nat \subseteq T
  <2>1. 0 \in T
    <3>1. at(L + 1) \in Nat /\ L + 1 - 0 = L + 1
      BY <1>1, <1>5
    <3> QED BY <3>1
  <2>2. ASSUME NEW d \in Nat, d \in T PROVE d + 1 \in T
    <3>1. SUFFICES ASSUME d + 1 <= L PROVE at(L + 1 - (d + 1)) <= at(L + 1)
      OBVIOUS
    <3> DEFINE n == L - d
    <3>2. n \in 1 .. L /\ L + 1 - d = n + 1 /\ L + 1 - (d + 1) = n /\ L + 1 \in 1 .. L + 1
      BY <1>1, <3>1
    <3>3. at(n + 1) <= at(L + 1)
      BY <1>1, <2>2, <3>1, <3>2
    <3>4. at(n) \in Nat /\ at(L + 1) \in Nat /\ EncodedBytes(list[n]) \in Nat
      BY <1>1, <1>3, <1>5, <3>2
    <3>5. at(n + 1) = at(n) + EncodedBytes(list[n])
      BY <1>2, <3>2
    <3> HIDE DEF n
    <3> QED BY <3>2, <3>3, <3>4, <3>5
  <2> HIDE DEF T
  <2> QED BY <2>1, <2>2, NatSetInduction
<1>7. ASSUME NEW n \in 1 .. L + 1 PROVE at(n) <= at(L + 1)
  <2>1. L + 1 - n \in Nat /\ L + 1 - n <= L /\ L + 1 - (L + 1 - n) = n
    BY <1>1
  <2>2. L + 1 - n \in T
    BY <1>6, <2>1
  <2> QED BY <2>1, <2>2
<1> QED BY <1>5, <1>7 DEF at, L

\* Operands without bytes of their own leave the offset where it is.
LEMMA NoBytesBefore ==
    ASSUME NEW list \in Seq(OperandSpecs), NEW start \in Nat, NEW n \in 0 .. Len(list),
           \A j \in 1 .. n : EncodedBytes(list[j]) = 0
    PROVE  OperandAt(list, start, n + 1) = start
<1> DEFINE at(i) == OperandAt(list, start, i)
           L == Len(list)
           S == {i \in Nat : i <= n => at(i + 1) = start}
<1>1. L \in Nat /\ at(1) = start /\ \A i \in 1 .. L : at(i + 1) = at(i) + EncodedBytes(list[i])
  <2>1. L \in Nat
    OBVIOUS
  <2> QED BY <2>1, OperandAtEquation
<1> HIDE DEF at
<1>2. 0 \in S
  BY <1>1
<1>3. ASSUME NEW i \in Nat, i \in S PROVE i + 1 \in S
  <2>1. SUFFICES ASSUME i + 1 <= n PROVE at(i + 1 + 1) = start
    OBVIOUS
  <2>2. i + 1 \in 1 .. L /\ i + 1 \in 1 .. n /\ at(i + 1) = start
    BY <1>1, <1>3, <2>1
  <2>3. EncodedBytes(list[i + 1]) = 0
    BY <2>2
  <2> HIDE DEF L
  <2> QED BY <1>1, <2>2, <2>3
<1>4. n \in S
  <2> HIDE DEF S
  <2> QED BY <1>2, <1>3, NatSetInduction
<1> QED BY <1>4 DEF at

-----------------------------------------------------------------------------
(* The switches.  A table of depths goes to the case it was made for.       *)

\* The switch of a node goes to the case of the byte, if it has one.
LEMMA OpcodeCaseIs ==
    ASSUME node \in Nodes \ Leaves
    PROVE  OpcodeCase = IF byte \in dispatchBytesForContext(node) THEN {byte} ELSE {}
<1> DEFINE cases == dispatchBytesForContext(node)
           positions == casePosition(node)
<1>1. DOMAIN positions = cases
  BY DEF casePosition
<1>2. IsFiniteSet(cases)
  <2>1. dispatchBytes(node) \in SUBSET (0 .. 255)
    BY DEF dispatchBytes
  <2>2. IsFiniteSet(dispatchBytes(node))
    <3>1. IsFiniteSet(0 .. 255)
      <4>1. 0 \in Int /\ 255 \in Int
        OBVIOUS
      <4> QED BY <4>1, FS_Interval, Zenon
    <3> QED BY <2>1, <3>1, FS_Subset
  <2>3. IsFiniteSet(dispatchBytes(node) \cup {OperandSizePrefix})
    BY <2>2, FS_AddElement
  <2>4. cases \in SUBSET (dispatchBytes(node) \cup {OperandSizePrefix})
    BY DEF dispatchBytesForContext
  <2> QED BY <2>3, <2>4, FS_Subset
<1>3. ASSUME NEW b \in cases
      PROVE  IF b \in dispatchBytes(node) THEN positions[b] = b /\ b \in 0 .. 255
             ELSE positions[b] = 256 /\ b = OperandSizePrefix
  BY DEF casePosition, dispatchBytesForContext, dispatchBytes
<1>4. \A b \in cases : positions[b] \in Int
  BY <1>3
<1>5. \A b, c \in cases : positions[b] = positions[c] => b = c
  BY <1>3
<1>6. Switches[node] = Depths(positions)
  BY DEF Switches
<1> DEFINE depths == Switches[node]
<1> HIDE DEF positions, cases, depths
<1>7. /\ DOMAIN depths = cases
      /\ \A b \in cases : Landing(depths, depths[b]) = {b}
      /\ Landing(depths, Cardinality(cases)) = {}
  BY <1>1, <1>2, <1>4, <1>5, <1>6, CasesApart DEF depths
<1>8. OpcodeCase = Landing(depths, dispatchTable(depths, byte))
  BY DEF OpcodeCase, depths
<1> QED BY <1>7, <1>8 DEF dispatchTable, cases

\* What FormsDispatchable says of the forms of a leaf.
Apart(found) ==
    \A e, o \in found : e # o =>
        /\ ~instructionSpecsOverlap(e, o)
        /\ instructionReadsModRm(e.spec) /\ instructionReadsModRm(o.spec)

\* Two forms of a leaf take different values of ModRM.reg.
LEMMA RegistersApart ==
    ASSUME Apart(candidates), NEW e \in candidates, NEW o \in candidates,
           NEW reg, regMatches(e, reg), regMatches(o, reg)
    PROVE  e = o
<1>1. SUFFICES ASSUME e # o PROVE FALSE
  OBVIOUS
<1>2. e.opcode = o.opcode /\ e.spec.prefix = o.spec.prefix
  BY DEF candidates, Candidates
<1>3. ~modRmUseOverlaps(e.spec, o.spec)
  BY <1>1, <1>2 DEF Apart, instructionSpecsOverlap
<1> QED BY <1>3 DEF modRmUseOverlaps, regMatches

\* The switch over ModRM.reg goes to the only form that takes it, if there is one.
LEMMA ModRmCaseIs ==
    ASSUME Apart(candidates), NEW reg \in Reg3, NEW depths, NEW handlers,
           depths = Depths(registerModRmPosition(registerModRmDispatchCases(candidates))),
           handlers = Landing(depths, registerModRmTable(depths, reg))
    PROVE  /\ handlers = {} <=> modRmByReg(candidates, reg) = {}
           /\ \A h \in handlers : modRmByReg(candidates, reg) = {h.form}
<1> DEFINE cases == registerModRmDispatchCases(candidates)
           positions == registerModRmPosition(cases)
           taken(e) == {r \in Reg3 : regMatches(e, r)}
           matching == modRmByReg(candidates, reg)
<1>1. ASSUME NEW c \in cases
      PROVE  /\ c.form \in candidates /\ c.regs = taken(c.form)
             /\ c = [form |-> c.form, regs |-> taken(c.form)]
             /\ positions[c] \in c.regs /\ positions[c] \in Reg3
  <2>1. PICK e \in candidates : c = [form |-> e, regs |-> taken(e)] /\ taken(e) # {}
    BY DEF registerModRmDispatchCases
  <2>2. c.regs \in SUBSET Nat /\ c.regs # {} /\ c.regs \subseteq Reg3
    BY <2>1 DEF Reg3
  <2>3. positions[c] = Min(c.regs)
    BY DEF registerModRmPosition
  <2> HIDE DEF positions, cases, taken
  <2> QED BY <2>1, <2>2, <2>3, MinExists
<1>2. ASSUME NEW c \in cases, NEW d \in cases, NEW r \in c.regs, r \in d.regs
      PROVE  c = d
  <2>1. regMatches(c.form, r) /\ regMatches(d.form, r)
    BY <1>1, <1>2
  <2>2. c.form = d.form
    BY <1>1, <2>1, RegistersApart
  <2> HIDE DEF cases, taken
  <2> QED BY <1>1, <2>2
<1>3. DOMAIN positions = cases
  BY DEF registerModRmPosition
<1>4. \A e \in matching : [form |-> e, regs |-> taken(e)] \in cases
  BY DEF modRmByReg, registerModRmDispatchCases
<1>5. \A c \in cases : reg \in c.regs => c.form \in matching
  BY <1>1 DEF modRmByReg
<1> HIDE DEF cases, positions, taken
<1>6. \A c, d \in cases : positions[c] = positions[d] => c = d
  BY <1>1, <1>2
<1>7. IsFiniteSet(cases)
  <2> DEFINE f == [c \in cases |-> positions[c]]
  <2>1. f \in Injection(cases, Reg3)
    BY <1>1, <1>6 DEF Injection, IsInjective
  <2>2. IsFiniteSet(Reg3)
    <3>1. IsFiniteSet(0 .. 7)
      <4>1. 0 \in Int /\ 7 \in Int
        OBVIOUS
      <4> QED BY <4>1, FS_Interval, Zenon
    <3> QED BY <3>1 DEF Reg3
  <2> QED BY <2>1, <2>2, FS_Injection
<1>8. \A c \in cases : positions[c] \in Int
  BY <1>1 DEF Reg3
<1>9. depths = Depths(positions)
  BY DEF positions, cases
<1>10. /\ DOMAIN depths = cases
       /\ \A b \in cases : Landing(depths, depths[b]) = {b}
       /\ Landing(depths, Cardinality(cases)) = {}
  BY <1>3, <1>6, <1>7, <1>8, <1>9, CasesApart
<1> DEFINE taking == {c \in cases : reg \in c.regs}
<1>11. CASE taking = {}
  <2>1. handlers = {}
    BY <1>10, <1>11 DEF registerModRmTable
  <2>2. ASSUME NEW e \in matching PROVE FALSE
    <3> DEFINE c == [form |-> e, regs |-> taken(e)]
    <3>1. c \in cases /\ reg \in c.regs
      BY <1>4 DEF modRmByReg, taken
    <3> QED BY <1>11, <3>1
  <2> QED BY <2>1, <2>2
<1>12. CASE taking # {}
  <2> DEFINE t == CHOOSE c \in taking : TRUE
  <2>1. t \in cases /\ reg \in t.regs
    BY <1>12
  <2>2. registerModRmTable(depths, reg) = depths[t]
    BY <1>10, <1>12 DEF registerModRmTable
  <2> HIDE DEF t
  <2>3. handlers = {t}
    BY <1>10, <2>1, <2>2
  <2>4. t.form \in matching
    BY <1>5, <2>1
  <2>5. \A e \in matching : e = t.form
    BY <2>4, RegistersApart DEF modRmByReg
  <2> QED BY <2>3, <2>4, <2>5
<1> QED BY <1>11, <1>12

-----------------------------------------------------------------------------

\* Part of a sequence, and one more of its elements.
LEMMA PartExtended ==
    ASSUME NEW S, NEW c \in Seq(S), NEW a \in Nat, NEW n \in Nat, a + n + 1 <= Len(c)
    PROVE  /\ SubSeq(c, a + 1, a + n) \in Seq(S)
           /\ Len(SubSeq(c, a + 1, a + n)) = n
           /\ Append(SubSeq(c, a + 1, a + n), ByteAt(c, a + n)) = SubSeq(c, a + 1, a + n + 1)
           /\ ByteAt(c, a + n) \in S
<1> DEFINE s == SubSeq(c, a + 1, a + n)
           t == SubSeq(c, a + 1, a + n + 1)
           x == ByteAt(c, a + n)
<1>1. x \in S /\ Len(c) \in Nat
  BY DEF ByteAt
<1>2. s \in Seq(S) /\ Len(s) = n /\ \A i \in 1 .. n : s[i] = c[a + i]
  BY <1>1
<1>3. t \in Seq(S) /\ Len(t) = n + 1 /\ \A i \in 1 .. n + 1 : t[i] = c[a + i]
  BY <1>1
<1>4. Append(s, x) = t
  <2>1. Append(s, x) \in Seq(S) /\ Len(Append(s, x)) = n + 1
    BY <1>1, <1>2
  <2>2. \A i \in 1 .. n + 1 : Append(s, x)[i] = t[i]
    BY <1>1, <1>2, <1>3 DEF ByteAt
  <2> HIDE DEF s, t, x
  <2> QED BY <1>3, <2>1, <2>2
<1> QED BY <1>1, <1>2, <1>4

-----------------------------------------------------------------------------
(* Two decoders in step.  What the emitted code has done so far is what the *)
(* ISA decoder does with the same bytes.                                    *)

AtLeaf == {"leaf", "modrm", "select", "operands"}

\* The bytes before the opcode are the prefixes, and they are all of them once
\* an opcode byte has been dispatched.
PrefixesRead ==
    /\ \A i \in 1 .. opcodeOffset : ByteAt(code, i - 1) = OperandSizePrefix
    /\ mode = IF opcodeOffset = 0 THEN "default" ELSE "override"
    /\ node # <<>> => ByteAt(code, opcodeOffset) # OperandSizePrefix

\* The node is what the opcode bytes lead to, and no leaf lies on the way.
OpcodeBytes(n) == SubSeq(code, opcodeOffset + 1, opcodeOffset + n)
PathRead ==
    /\ node = OpcodeBytes(Len(node))
    /\ \A n \in 1 .. Len(node) - 1 : OpcodeBytes(n) \in Nodes \ Leaves
    /\ stage \in AtLeaf => node \in Leaves

\* The locals hold the bytes they are named for.
BytesKept ==
    /\ stage = "dispatch" => byte = ByteAt(code, NextByte) /\ opcode = byte
    /\ stage \in AtLeaf => opcode = LastByte(node)
    /\ stage = "select" => modrm = ByteAt(code, NextByte)
    /\ stage \notin {"operands", "done"} => sib = NoByte /\ operands = <<>>
    /\ stage \in {"modrm", "select"} =>
         Apart(candidates) /\ candidatesKind(candidates) = "modRm"

\* What the ISA decoder takes for the ModRM byte, the address, the beginning of
\* the operands and each of them, if it has chosen the same form.
ReadsModRm == instructionReadsModRm(chosen.spec)
IsaModRm == IF ReadsModRm THEN ByteAt(code, NextByte) ELSE 0
IsaRm == IF ReadsModRm THEN decodeModRmAddressing(code, NextByte) ELSE NoRm
IsaStart == IF ReadsModRm THEN NextByte + IsaRm.length ELSE NextByte
Encoded == chosen.spec.operands
IsaOperand(i) ==
    decodeOperand(chosen, IsaModRm, IsaRm, Encoded[i], OperandAt(Encoded, IsaStart, i))

FormChosen ==
    stage = "operands" =>
        /\ chosen \in candidates
        /\ IF ReadsModRm
           THEN /\ candidatesKind(candidates) = "modRm"
                /\ modrm = ByteAt(code, NextByte)
                /\ modRmByReg(candidates, RegField(modrm)) = {chosen}
           ELSE /\ candidatesKind(candidates) = "noModRm"
                /\ chosen = CHOOSE e \in candidates : TRUE

\* The operands bound so far are the ISA decoder's, and the reader is where it
\* finds the next one, or in the middle of the address.
AddressPending == \E i \in Len(operands) + 1 .. Len(Encoded) : Encoded[i].kind = "modrm.rm"
OperandsBound ==
    stage = "operands" =>
        /\ Len(operands) <= Len(Encoded)
        /\ reader >= IF ReadsModRm THEN NextByte + 1 ELSE NextByte
        /\ \A i \in 1 .. Len(operands) : operands[i] = IsaOperand(i)
        /\ AddressPending =>
             /\ reader = NextByte + 1 + (IF sib = NoByte THEN 0 ELSE 1)
             /\ sib # NoByte => HasSib(modrm) /\ sib = ByteAt(code, NextByte + 1)
        /\ ~AddressPending =>
             /\ reader = OperandAt(Encoded, IsaStart, Len(operands) + 1)
             /\ \A i \in 1 .. Len(Encoded) : ~(Encoded[i].memoryOnly /\ IsaRm.kind = "reg")

\* The inductive invariant.
Alike == DecodersAgree /\ RefusalsAgree
AgreeInv == DecoderInv /\ PrefixesRead /\ PathRead /\ BytesKept /\ FormChosen /\ OperandsBound /\ Alike

-----------------------------------------------------------------------------
(* The opcode: the ISA decoder ends it where the walk down the tree did.    *)

\* Everything but the end.
Decoding == {"opcode", "dispatch"} \cup AtLeaf

\* What has been read up to the opcode's end.
LEMMA OpcodeRead ==
    ASSUME AgreeInv, stage \in Decoding
    PROVE  /\ opcodeOffset \in Nat /\ Len(node) \in Nat /\ Len(code) \in Nat
           /\ NextByte = opcodeOffset + Len(node) /\ NextByte \in Nat
           /\ NextByte <= Len(code) /\ Readable(code, NextByte)
           /\ stage \in {"dispatch", "select"} =>
                NextByte + 1 <= Len(code) /\ Readable(code, NextByte + 1)
<1>1. /\ code \in Seq(0 .. 255) /\ opcodeOffset \in Nat /\ touched \in Nat /\ reader \in Nat
      /\ Readable(code, touched)
  BY DEF AgreeInv, DecoderInv, DecoderTyped, ReadsStayInside
<1>2. Len(node) \in Nat /\ Len(code) \in Nat
  BY <1>1, AppendLonger DEF AgreeInv, DecoderInv, DecoderTyped
<1>3. NextByte = opcodeOffset + Len(node) /\ NextByte \in Nat
  BY <1>1, <1>2 DEF NextByte
<1>4. touched >= NextByte /\ (stage \in {"dispatch", "select"} => touched = NextByte + 1)
  <2>1. CASE stage = "operands"
    <3>1. reader >= IF ReadsModRm THEN NextByte + 1 ELSE NextByte
      BY <2>1 DEF AgreeInv, OperandsBound
    <3>2. touched = reader
      BY <2>1 DEF AgreeInv, DecoderInv, ReadSoFar
    <3> QED BY <1>1, <1>3, <2>1, <3>1, <3>2
  <2>2. CASE stage # "operands"
    BY <1>3, <2>2 DEF AgreeInv, DecoderInv, ReadSoFar, Decoding, AtLeaf
  <2> QED BY <2>1, <2>2
<1> QED BY <1>1, <1>2, <1>3, <1>4 DEF Readable, maxX86InstructionLength

\* The ISA decoder skips the prefixes that were skipped, and no others once it
\* looks at an opcode byte.
LEMMA PrefixesSkipped ==
    ASSUME AgreeInv, stage \in Decoding, NEW p, p = decodePrefixes(code)
    PROVE  /\ p \in Nat /\ opcodeOffset <= p /\ p <= Len(code)
           /\ (opcodeOffset < Len(code) /\ ByteAt(code, opcodeOffset) # OperandSizePrefix)
                => p = opcodeOffset
<1> DEFINE S == {n \in 0 .. Len(code) : n = Len(code) \/ ByteAt(code, n) # OperandSizePrefix}
<1>1. opcodeOffset \in Nat /\ Len(code) \in Nat /\ opcodeOffset <= Len(code)
  BY OpcodeRead
<1>2. S \in SUBSET Nat /\ Len(code) \in S /\ p = Min(S)
  BY <1>1 DEF decodePrefixes
<1>3. ASSUME NEW y \in S PROVE opcodeOffset <= y
  <2>1. SUFFICES ASSUME y < opcodeOffset PROVE FALSE
    BY <1>1
  <2>2. y + 1 \in 1 .. opcodeOffset /\ (y + 1) - 1 = y /\ y # Len(code)
    BY <1>1, <2>1
  <2>3. ByteAt(code, y) = OperandSizePrefix
    BY <2>2 DEF AgreeInv, PrefixesRead
  <2> QED BY <2>2, <2>3
<1>4. opcodeOffset < Len(code) /\ ByteAt(code, opcodeOffset) # OperandSizePrefix => opcodeOffset \in S
  BY <1>1
<1>5. p \in S /\ \A y \in S : p <= y
  <2> HIDE DEF S
  <2> QED BY <1>2, MinExists
<1> QED BY <1>1, <1>3, <1>4, <1>5

\* The opcode's length is the first one that ends the walk down the tree.
LEMMA OpcodeLengthIs ==
    ASSUME NEW a \in Nat, Len(code) \in Nat, NEW n \in Nat \ {0}, a + n <= Len(code) + 1,
           \/ ~Readable(code, a + n)
           \/ SubSeq(code, a + 1, a + n) \in Leaves
           \/ SubSeq(code, a + 1, a + n) \notin Nodes,
           \A m \in 1 .. n - 1 :
             Readable(code, a + m) /\ SubSeq(code, a + 1, a + m) \in Nodes \ Leaves
    PROVE  opcodeLength(code, a) = n
<1> DEFINE Ends(m) == \/ ~Readable(code, a + m)
                      \/ SubSeq(code, a + 1, a + m) \in Leaves
                      \/ SubSeq(code, a + 1, a + m) \notin Nodes
           S == {m \in 1 .. Len(code) - a + 1 : Ends(m)}
<1>1. n \in S /\ S \in SUBSET Int
  OBVIOUS
<1>2. ASSUME NEW y \in S PROVE n <= y
  <2>1. SUFFICES ASSUME y < n PROVE FALSE
    BY <1>1
  <2>2. y \in 1 .. n - 1
    BY <2>1
  <2> QED BY <2>2
<1>3. opcodeLength(code, a) = Min(S)
  BY DEF opcodeLength
<1> HIDE DEF S
<1> QED BY <1>1, <1>2, <1>3, MinIs

\* The ISA decoder ends the opcode where the walk did: at a leaf, or one byte
\* behind it.
LEMMA OpcodeEnds ==
    ASSUME AgreeInv, stage \in Decoding, NEW n \in Nat \ {0},
           n = Len(node) \/ n = Len(node) + 1,
           n = Len(node) + 1 => node \in Nodes \ Leaves,
           node # <<>> \/ (NextByte < Len(code) /\ ByteAt(code, NextByte) # OperandSizePrefix),
           \/ ~Readable(code, opcodeOffset + n)
           \/ OpcodeBytes(n) \in Leaves
           \/ OpcodeBytes(n) \notin Nodes
    PROVE  /\ decodePrefixes(code) = opcodeOffset
           /\ opcodeLength(code, opcodeOffset) = n
<1>1. /\ opcodeOffset \in Nat /\ Len(node) \in Nat /\ Len(code) \in Nat
      /\ NextByte = opcodeOffset + Len(node) /\ NextByte <= Len(code) /\ Readable(code, NextByte)
  BY OpcodeRead
<1>2. opcodeOffset < Len(code) /\ ByteAt(code, opcodeOffset) # OperandSizePrefix
  <2>1. CASE node = <<>>
    <3>1. Len(node) = 0
      BY <2>1
    <3>2. NextByte = opcodeOffset
      BY <1>1, <3>1
    <3> QED BY <2>1, <3>2
  <2>2. CASE node # <<>>
    <3>1. Len(node) # 0
      BY <2>2 DEF AgreeInv, DecoderInv, DecoderTyped, Sequence
    <3>2. opcodeOffset < Len(code)
      BY <1>1, <3>1
    <3> QED BY <2>2, <3>2 DEF AgreeInv, PrefixesRead
  <2> QED BY <2>1, <2>2
<1>3. decodePrefixes(code) = opcodeOffset
  BY <1>2, PrefixesSkipped
<1>4. ASSUME NEW m \in 1 .. n - 1
      PROVE  Readable(code, opcodeOffset + m) /\ OpcodeBytes(m) \in Nodes \ Leaves
  <2>1. m \in 1 .. Len(node) /\ opcodeOffset + m \in Nat /\ opcodeOffset + m <= NextByte
    BY <1>1
  <2>2. Readable(code, opcodeOffset + m)
    BY <1>1, <2>1, EarlierReadable
  <2>3. CASE m = Len(node)
    <3>1. n = Len(node) + 1
      BY <1>1, <2>3
    <3> QED BY <2>2, <2>3, <3>1 DEF AgreeInv, PathRead
  <2>4. CASE m # Len(node)
    <3>1. m \in 1 .. Len(node) - 1
      BY <1>1, <2>1, <2>4
    <3> QED BY <2>2, <3>1 DEF AgreeInv, PathRead
  <2> QED BY <2>3, <2>4
<1>5. opcodeOffset + n <= Len(code) + 1
  BY <1>1
<1>6. opcodeLength(code, opcodeOffset) = n
  BY <1>1, <1>4, <1>5, OpcodeLengthIs DEF OpcodeBytes
<1> QED BY <1>3, <1>6

\* At a leaf both decoders have the same opcode, and so the same candidates.
LEMMA IsaAtLeaf ==
    ASSUME AgreeInv, stage \in AtLeaf
    PROVE  IsaResult =
             CASE candidatesKind(candidates) = "empty" -> Unsupported(NextByte)
               [] candidatesKind(candidates) = "noModRm" ->
                    decodeCandidate(code, CHOOSE e \in candidates : TRUE, 0, NoRm, NextByte)
               [] candidatesKind(candidates) = "modRm" -> dispatchModRm(code, candidates, NextByte)
<1>1. /\ opcodeOffset \in Nat /\ Len(node) \in Nat /\ NextByte = opcodeOffset + Len(node)
      /\ Readable(code, NextByte)
  BY OpcodeRead DEF Decoding
<1>2. node \in Leaves /\ node = OpcodeBytes(Len(node))
  BY DEF AgreeInv, PathRead
<1>3. node # <<>>
  BY <1>2, LeavesNotEmpty
<1>4. Len(node) # 0
  BY <1>3 DEF AgreeInv, DecoderInv, DecoderTyped, Sequence
<1>5. decodePrefixes(code) = opcodeOffset /\ opcodeLength(code, opcodeOffset) = Len(node)
  BY <1>1, <1>2, <1>3, <1>4, OpcodeEnds DEF Decoding
<1>6. SubSeq(code, opcodeOffset + 1, NextByte) = node
  BY <1>1, <1>2 DEF OpcodeBytes
<1>7. mode = IF opcodeOffset = 0 THEN "default" ELSE "override"
  BY DEF AgreeInv, PrefixesRead
<1> DEFINE end == opcodeOffset + opcodeLength(code, opcodeOffset)
<1>8. end = NextByte
  BY <1>1, <1>5
<1> QED BY <1>1, <1>5, <1>6, <1>7, <1>8 DEF IsaResult, decodeIsaInstructionFromReader, candidates

\* A byte of the opcode that cannot be read faults in both.
LEMMA IsaOpcodeFault ==
    ASSUME AgreeInv, stage = "opcode", ~Readable(code, NextByte + 1)
    PROVE  IsaResult = Fault(code)
<1> DEFINE p == decodePrefixes(code)
           n == opcodeLength(code, p)
<1>1. /\ opcodeOffset \in Nat /\ Len(node) \in Nat /\ Len(code) \in Nat
      /\ NextByte = opcodeOffset + Len(node) /\ NextByte \in Nat
  BY OpcodeRead DEF Decoding
<1>2. p \in Nat /\ opcodeOffset <= p /\ p <= Len(code)
  BY PrefixesSkipped DEF Decoding
<1>3. n \in Nat \ {0}
  <2> DEFINE S == {m \in 1 .. Len(code) - p + 1 :
                     \/ ~Readable(code, p + m)
                     \/ SubSeq(code, p + 1, p + m) \in Leaves
                     \/ SubSeq(code, p + 1, p + m) \notin Nodes}
  <2>1. n = Min(S)
    BY DEF opcodeLength
  <2>2. S \in SUBSET (Nat \ {0})
    OBVIOUS
  <2>3. Len(code) - p + 1 \in S
    <3>1. Len(code) - p + 1 \in 1 .. Len(code) - p + 1 /\ p + (Len(code) - p + 1) = Len(code) + 1
      BY <1>1, <1>2
    <3>2. ~Readable(code, Len(code) + 1)
      BY <1>1 DEF Readable
    <3> QED BY <3>1, <3>2
  <2> HIDE DEF S, n
  <2> QED BY <2>1, <2>2, <2>3, MinExists
<1>4. p + n \in Nat /\ NextByte + 1 <= p + n
  <2>1. CASE node = <<>>
    <3>1. Len(node) = 0
      BY <2>1
    <3> HIDE DEF p, n
    <3> QED BY <1>1, <1>2, <1>3, <3>1
  <2>2. CASE node # <<>>
    <3>1. node \in Nodes \ Leaves
      BY DEF AgreeInv, DecoderInv, AtSwitch
    <3>2. p = opcodeOffset /\ opcodeLength(code, opcodeOffset) = Len(node) + 1
      <4>1. opcodeOffset + (Len(node) + 1) = NextByte + 1 /\ Len(node) + 1 \in Nat \ {0}
        BY <1>1
      <4> QED BY <2>2, <3>1, <4>1, OpcodeEnds DEF Decoding
    <3>3. n = Len(node) + 1
      BY <3>2
    <3> HIDE DEF p, n
    <3> QED BY <1>1, <3>2, <3>3
  <2> QED BY <2>1, <2>2
<1> HIDE DEF n
<1>5. ~Readable(code, p + n)
  <2> HIDE DEF p
  <2> QED BY <1>1, <1>4, EarlierReadable
<1> QED BY <1>5 DEF IsaResult, decodeIsaInstructionFromReader, n

-----------------------------------------------------------------------------
(* The address.                                                             *)

\* The field of the base register, for the ISA decoder.
BaseAt(c, at) == IF HasSib(ByteAt(c, at)) THEN ByteAt(c, at + 1) % 8 ELSE RmField(ByteAt(c, at))

LEMMA AddressOf ==
    ASSUME NEW c, NEW at \in Nat, NEW m, m = ByteAt(c, at), NEW rm, rm = decodeModRmAddressing(c, at)
    PROVE  /\ Mod(m) = 3 => rm.kind = "reg" /\ rm.index = RmField(m) /\ rm.length = 1
           /\ Mod(m) # 3 =>
                /\ rm.kind = "mem"
                /\ rm.length = (IF HasSib(m) THEN 2 ELSE 1)
                               + DisplacementWidth(Mod(m), BaseAt(c, at)) \div 8
           /\ rm.length \in Nat /\ 1 <= rm.length
           /\ HasSib(m) => 2 <= rm.length
<1> DEFINE mod == Mod(m)
           width == DisplacementWidth(mod, BaseAt(c, at))
           first == IF HasSib(m) THEN at + 2 ELSE at + 1
<1>1. width \div 8 \in Nat
  <2>1. width \in {0, 8, 32}
    BY DEF DisplacementWidth
  <2> HIDE DEF width
  <2> QED BY <2>1
<1>2. CASE mod = 3
  <2>1. rm = RegisterRm(m)
    BY <1>2 DEF decodeModRmAddressing
  <2>2. ~HasSib(m)
    BY <1>2 DEF HasSib
  <2> QED BY <1>2, <2>1, <2>2 DEF RegisterRm
<1>3. CASE mod # 3
  <2>1. PICK base, index, scale, disp :
          rm = MemoryRm(base, index, scale, disp, first - at + width \div 8)
    BY <1>3 DEF decodeModRmAddressing, BaseAt
  <2>2. rm.kind = "mem" /\ rm.length = first - at + width \div 8
    BY <2>1 DEF MemoryRm
  <2>3. first - at = IF HasSib(m) THEN 2 ELSE 1
    OBVIOUS
  <2> HIDE DEF first, width
  <2>4. rm.length = (IF HasSib(m) THEN 2 ELSE 1) + width \div 8
    BY <2>2, <2>3
  <2> QED BY <1>1, <1>3, <2>2, <2>4 DEF width
<1> QED BY <1>2, <1>3

\* The bytes that have to be readable for it: as many as it has, once the SIB
\* byte can be read.
LEMMA AddressBytes ==
    ASSUME NEW c, NEW at \in Nat, NEW m, m = ByteAt(c, at), Readable(c, at + 1)
    PROVE  rm32ModRmByteLengthAt(c, at) =
             IF HasSib(m) /\ ~Readable(c, at + 2) THEN 2 ELSE decodeModRmAddressing(c, at).length
BY DEF rm32ModRmByteLengthAt

-----------------------------------------------------------------------------
(* The operands.                                                            *)

\* What the form of the operands is, and where they are read.
LEMMA OperandsRead ==
    ASSUME AgreeInv, stage = "operands"
    PROVE  /\ chosen \in Expanded /\ Encoded \in Seq(OperandSpecs) /\ Len(Encoded) \in Nat
           /\ Len(operands) \in Nat /\ Len(operands) <= Len(Encoded)
           /\ NextByte \in Nat /\ reader \in Nat /\ Len(code) \in Nat
           /\ Readable(code, reader) /\ Readable(code, NextByte) /\ touched = reader
           /\ reader # 0
           /\ ReadsModRm =>
                /\ AddressFirst(chosen.spec)
                /\ NextByte + 1 <= reader /\ Readable(code, NextByte + 1) /\ NextByte + 1 <= Len(code)
                /\ IsaRm.length \in Nat
           /\ IsaStart \in Nat
<1>1. chosen \in Expanded /\ Encoded \in Seq(OperandSpecs) /\ Len(Encoded) \in Nat
  <2>1. chosen \in Expanded
    BY DEF AgreeInv, DecoderInv, DecoderTyped
  <2>2. Encoded \in Seq(OperandSpecs)
    BY <2>1, ExpandedForm DEF Encoded
  <2> QED BY <2>1, <2>2
<1>2. Len(operands) \in Nat /\ Len(operands) <= Len(Encoded)
  BY AppendLonger DEF AgreeInv, DecoderInv, DecoderTyped, OperandsBound
<1>3. NextByte \in Nat /\ Len(code) \in Nat /\ Readable(code, NextByte)
  BY OpcodeRead DEF Decoding, AtLeaf
<1>4. reader \in Nat /\ touched = reader /\ Readable(code, reader)
  BY DEF AgreeInv, DecoderInv, DecoderTyped, AtSwitch, ReadSoFar, ReadsStayInside
<1>5. ASSUME ReadsModRm
      PROVE  /\ AddressFirst(chosen.spec)
             /\ NextByte + 1 <= reader /\ Readable(code, NextByte + 1) /\ NextByte + 1 <= Len(code)
             /\ IsaRm.length \in Nat /\ IsaStart \in Nat
  <2>1. AddressFirst(chosen.spec)
    BY <1>1, <1>5, ExpandedOpcode DEF ReadsModRm
  <2>2. NextByte + 1 <= reader
    BY <1>3, <1>4, <1>5 DEF AgreeInv, OperandsBound
  <2>3. Readable(code, NextByte + 1)
    BY <1>3, <1>4, <2>2, EarlierReadable
  <2>4. NextByte + 1 <= Len(code)
    BY <2>3 DEF Readable
  <2>5. IsaRm.length \in Nat
    <3>1. IsaRm = decodeModRmAddressing(code, NextByte)
      BY <1>5 DEF IsaRm
    <3> QED BY <1>3, <3>1, AddressOf
  <2>6. IsaStart \in Nat
    BY <1>3, <1>5, <2>5 DEF IsaStart
  <2> QED BY <2>1, <2>2, <2>3, <2>4, <2>5, <2>6
<1>6. ~ReadsModRm => IsaStart \in Nat
  BY <1>3 DEF IsaStart
<1>7. reader # 0
  <2>1. node \in Leaves /\ Sequence(node)
    BY DEF AgreeInv, DecoderInv, DecoderTyped, PathRead, AtLeaf
  <2>2. node # <<>>
    BY <2>1, LeavesNotEmpty
  <2>3. Len(node) \in Nat \ {0}
    BY <2>1, <2>2 DEF Sequence
  <2>4. NextByte = opcodeOffset + Len(node) /\ opcodeOffset \in Nat
    BY DEF NextByte, AgreeInv, DecoderInv, DecoderTyped
  <2>5. reader >= NextByte
    BY <1>3, <1>4 DEF AgreeInv, OperandsBound
  <2> QED BY <1>4, <2>3, <2>4, <2>5
<1> QED BY <1>1, <1>2, <1>3, <1>4, <1>5, <1>6, <1>7

\* An operand that is left, and what it may be.
LEMMA NextOperand ==
    ASSUME AgreeInv, decoding
    PROVE  /\ stage = "operands"
           /\ Len(operands) + 1 \in 1 .. Len(Encoded)
           /\ operand = Encoded[Len(operands) + 1] /\ operand \in OperandSpecs
           /\ operand.kind = "modrm.rm" => AddressPending
           /\ operand.kind \in {"modrm.reg", "modrm.rm"} => ReadsModRm
           /\ operand.memoryOnly => operand.kind = "modrm.rm"
<1>1. stage = "operands" /\ Len(operands) < Len(Encoded)
  BY DEF decoding, operandsLeft, Encoded
<1>2. /\ Encoded \in Seq(OperandSpecs) /\ Len(Encoded) \in Nat /\ Len(operands) \in Nat
  BY <1>1, OperandsRead
<1> DEFINE k == Len(operands) + 1
<1>3. k \in 1 .. Len(Encoded) /\ k \in DOMAIN Encoded /\ Encoded[k] \in OperandSpecs
  <2>1. k \in 1 .. Len(Encoded)
    BY <1>1, <1>2
  <2> HIDE DEF k
  <2> QED BY <1>2, <2>1
<1>4. operand = Encoded[k]
  BY DEF operand, Encoded
<1>5. k \in Len(operands) + 1 .. Len(Encoded)
  BY <1>2, <1>3
<1>6. operand.memoryOnly => operand.kind = "modrm.rm"
  BY <1>3, <1>4 DEF OperandSpecs
<1> HIDE DEF k
<1>7. operand.kind \in {"modrm.reg", "modrm.rm"} => ReadsModRm
  BY <1>3, <1>4 DEF ReadsModRm, instructionReadsModRm, Encoded
<1>8. operand.kind = "modrm.rm" => AddressPending
  BY <1>4, <1>5 DEF AddressPending
<1> QED BY <1>1, <1>3, <1>4, <1>6, <1>7, <1>8 DEF k

\* While the address is pending no operand has had bytes of its own, and it is
\* bound once.
LEMMA PendingAddress ==
    ASSUME AgreeInv, stage = "operands", AddressPending
    PROVE  /\ ReadsModRm
           /\ \A j \in 1 .. Len(operands) + 1 : EncodedBytes(Encoded[j]) = 0
           /\ Len(operands) + 1 \in 1 .. Len(Encoded)
           /\ Encoded[Len(operands) + 1].kind = "modrm.rm" =>
                \A j \in 1 .. Len(Encoded) : Encoded[j].kind = "modrm.rm" => j = Len(operands) + 1
<1>1. /\ Encoded \in Seq(OperandSpecs) /\ Len(Encoded) \in Nat
      /\ Len(operands) \in Nat /\ Len(operands) <= Len(Encoded)
  BY OperandsRead
<1>2. PICK i \in Len(operands) + 1 .. Len(Encoded) : Encoded[i].kind = "modrm.rm"
  BY DEF AddressPending
<1>3. i \in 1 .. Len(Encoded) /\ DOMAIN Encoded = 1 .. Len(Encoded)
  BY <1>1, <1>2
<1>4. ReadsModRm
  BY <1>2, <1>3 DEF ReadsModRm, instructionReadsModRm, Encoded
<1>5. AddressFirst(chosen.spec)
  BY <1>4, OperandsRead
<1>6. /\ \A j \in 1 .. Len(Encoded) : Encoded[j].kind = "modrm.rm" => j = i
      /\ \A j \in 1 .. i : Encoded[j].kind \notin {"imm", "rel"}
  <2>1. PICK a \in DOMAIN Encoded :
          /\ \A j \in DOMAIN Encoded : Encoded[j].kind = "modrm.rm" => j = a
          /\ \A j \in 1 .. a : Encoded[j].kind \notin {"imm", "rel"}
    BY <1>5 DEF AddressFirst, Encoded
  <2>2. i = a
    BY <1>2, <1>3, <2>1
  <2> QED BY <1>3, <2>1, <2>2
<1>7. ASSUME NEW j \in 1 .. Len(operands) + 1 PROVE EncodedBytes(Encoded[j]) = 0
  <2>1. j \in 1 .. i /\ j \in 1 .. Len(Encoded)
    BY <1>1, <1>2
  <2>2. Encoded[j] \in OperandSpecs /\ Encoded[j].kind \notin {"imm", "rel"}
    BY <1>1, <1>6, <2>1
  <2> QED BY <2>2, OperandBytes
<1>8. Len(operands) + 1 \in 1 .. Len(Encoded)
  BY <1>1, <1>2
<1> QED BY <1>4, <1>6, <1>7, <1>8

-----------------------------------------------------------------------------
(* What the ISA decoder does with the same form.                            *)

\* A form without ModRM.
LEMMA IsaPlain ==
    ASSUME AgreeInv, stage = "operands", ~ReadsModRm
    PROVE  IsaResult = decodeCandidate(code, chosen, IsaModRm, IsaRm, IsaStart)
<1>1. candidatesKind(candidates) = "noModRm" /\ chosen = CHOOSE e \in candidates : TRUE
  BY DEF AgreeInv, FormChosen
<1>2. IsaModRm = 0 /\ IsaRm = NoRm /\ IsaStart = NextByte
  BY DEF IsaModRm, IsaRm, IsaStart
<1>3. IsaResult = decodeCandidate(code, CHOOSE e \in candidates : TRUE, 0, NoRm, NextByte)
  BY <1>1, IsaAtLeaf DEF AtLeaf
<1> QED BY <1>1, <1>2, <1>3

\* A form with ModRM: the bytes of the address first.
LEMMA IsaAddressed ==
    ASSUME AgreeInv, stage = "operands", ReadsModRm
    PROVE  IsaResult =
             IF ~Readable(code, NextByte + rm32ModRmByteLengthAt(code, NextByte)) THEN Fault(code)
             ELSE decodeCandidate(code, chosen, IsaModRm, IsaRm,
                                  NextByte + rm32ModRmByteLengthAt(code, NextByte))
<1>1. /\ candidatesKind(candidates) = "modRm" /\ modrm = ByteAt(code, NextByte)
      /\ modRmByReg(candidates, RegField(modrm)) = {chosen}
  BY DEF AgreeInv, FormChosen
<1>2. IsaModRm = ByteAt(code, NextByte) /\ IsaRm = decodeModRmAddressing(code, NextByte)
  BY DEF IsaModRm, IsaRm
<1>3. IsaResult = dispatchModRm(code, candidates, NextByte)
  BY <1>1, IsaAtLeaf DEF AtLeaf
<1>4. chosen = CHOOSE e \in {chosen} : TRUE
  OBVIOUS
<1> QED BY <1>1, <1>2, <1>3, <1>4 DEF dispatchModRm

\* Once the address has been read.
LEMMA IsaBehindAddress ==
    ASSUME AgreeInv, stage = "operands", ~AddressPending
    PROVE  IsaResult = decodeCandidate(code, chosen, IsaModRm, IsaRm, IsaStart)
<1>1. CASE ~ReadsModRm
  BY <1>1, IsaPlain
<1>2. CASE ReadsModRm
  <2>1. /\ Encoded \in Seq(OperandSpecs) /\ Len(operands) \in Nat /\ Len(operands) <= Len(Encoded)
        /\ Len(Encoded) \in Nat
        /\ NextByte \in Nat /\ reader \in Nat /\ IsaStart \in Nat /\ Len(code) \in Nat
        /\ Readable(code, reader) /\ Readable(code, NextByte + 1)
    BY <1>2, OperandsRead
  <2>2. IsaStart <= reader
    <3>1. reader = OperandAt(Encoded, IsaStart, Len(operands) + 1)
      BY DEF AgreeInv, OperandsBound
    <3>2. Len(operands) + 1 \in 1 .. Len(Encoded) + 1
      BY <2>1
    <3> QED BY <2>1, <3>1, <3>2, OperandsAscend
  <2>3. Readable(code, IsaStart)
    BY <2>1, <2>2, EarlierReadable
  <2> DEFINE m == ByteAt(code, NextByte)
             rm == decodeModRmAddressing(code, NextByte)
             length == rm32ModRmByteLengthAt(code, NextByte)
  <2>4. rm.length \in Nat /\ (HasSib(m) => 2 <= rm.length)
    BY <2>1, AddressOf
  <2>5. IsaStart = NextByte + rm.length
    BY <1>2 DEF IsaStart, IsaRm
  <2>6. HasSib(m) => Readable(code, NextByte + 2)
    <3> HIDE DEF rm, m
    <3> QED BY <2>1, <2>3, <2>4, <2>5, EarlierReadable
  <2>7. length = rm.length
    <3>1. length = IF HasSib(m) /\ ~Readable(code, NextByte + 2) THEN 2 ELSE rm.length
      BY <2>1, AddressBytes
    <3> HIDE DEF length, rm, m
    <3> QED BY <2>6, <3>1
  <2> QED BY <1>2, <2>3, <2>5, <2>7, IsaAddressed
<1> QED BY <1>1, <1>2

\* Where the bytes of the last operand end.
IsaLength == OperandAt(Encoded, IsaStart, Len(Encoded) + 1)

\* It takes the form if the form's last byte can be read.
LEMMA IsaBehindOperands ==
    ASSUME AgreeInv, stage = "operands", ~AddressPending
    PROVE  IsaResult =
             IF ~Readable(code, IsaLength) THEN Fault(code)
             ELSE [kind |-> "ok", spec |-> chosen.spec, length |-> IsaLength,
                   operands |-> [i \in DOMAIN Encoded |-> IsaOperand(i)]]
<1>1. \A i \in 1 .. Len(Encoded) : ~(Encoded[i].memoryOnly /\ IsaRm.kind = "reg")
  BY DEF AgreeInv, OperandsBound
<1>2. DOMAIN Encoded = 1 .. Len(Encoded)
  BY OperandsRead
<1>3. IsaResult = decodeCandidate(code, chosen, IsaModRm, IsaRm, IsaStart)
  BY IsaBehindAddress
<1> QED BY <1>1, <1>2, <1>3 DEF decodeCandidate, IsaLength, IsaOperand, Encoded

-----------------------------------------------------------------------------
(* Leaving: an answer both decoders agree on.                               *)

\* An answer the ISA decoder agrees with, as DecodersAgree and RefusalsAgree
\* put it.
Agreed(how) ==
    /\ how.kind = "ok" <=> IsaResult.kind = "ok"
    /\ how.kind = "ok" => how = IsaResult
    /\ how.kind = "fault" => FaultAgrees(how.at)
    /\ how.kind = "unsupported" =>
         \/ IsaResult.kind = "unsupported"
         \/ /\ IsaResult.kind = "fault"
            /\ node \in Leaves
            /\ modrm # NoByte /\ modRmByReg(candidates, RegField(modrm)) = {}

LEMMA ExitAlike ==
    ASSUME AgreeInv, NEW how, Exit(how), Agreed(how), DecoderInv'
    PROVE  AgreeInv'
<1>1. /\ result' = how /\ stage' = "done"
      /\ UNCHANGED <<code, opcodeOffset, mode, node, byte, opcode, modrm, sib, chosen, reader,
                     operands, touched>>
  BY DEF Exit
<1>2. IsaResult' = IsaResult /\ candidates' = candidates
  BY <1>1 DEF IsaResult, candidates
<1>3. Alike'
  BY <1>1, <1>2 DEF Alike, DecodersAgree, RefusalsAgree, FaultAgrees, Agreed
<1>4. PrefixesRead' /\ PathRead'
  BY <1>1 DEF AgreeInv, PrefixesRead, PathRead, AtLeaf, OpcodeBytes
<1>5. BytesKept' /\ FormChosen' /\ OperandsBound'
  BY <1>1 DEF BytesKept, FormChosen, OperandsBound, AtLeaf
<1> QED BY <1>3, <1>4, <1>5 DEF AgreeInv

\* A refusal both decoders agree on.
LEMMA RefusedAlike ==
    ASSUME AgreeInv, NEW n, NEW m, Exit(Unsupported(n)), IsaResult = Unsupported(m)
    PROVE  AgreeInv'
<1>1. Unsupported(n).kind = "unsupported" /\ Unsupported(m).kind = "unsupported"
  BY DEF Unsupported
<1>2. Agreed(Unsupported(n))
  BY <1>1 DEF Agreed
<1>3. DecoderInv'
  BY UnsupportedKeeps DEF AgreeInv
<1> QED BY <1>2, <1>3, ExitAlike

\* A read of one to four bytes fails where the ISA decoder faults, or less than
\* four bytes before; and what it reports is that address, if it is one byte.
LEMMA FaultNear ==
    ASSUME NEW n \in 1 .. 4, touched \in Nat, Len(code) \in Nat, Readable(code, touched),
           ~Readable(code, touched + n), IsaResult = Fault(code), n = 1 \/ reader # 0,
           NEW at, at = IF touched + n > maxX86InstructionLength THEN maxX86InstructionLength
                        ELSE touched
    PROVE  FaultAgrees(at)
<1> DEFINE end == IF Len(code) < maxX86InstructionLength THEN Len(code) ELSE maxX86InstructionLength
<1>1. /\ end \in touched .. touched + 3
      /\ at \in {touched, maxX86InstructionLength}
      /\ n = 1 => at = end
      /\ end = maxX86InstructionLength => at = maxX86InstructionLength
  <2>1. touched <= Len(code) /\ touched <= 15 /\ (touched + n > Len(code) \/ touched + n > 15)
    BY DEF Readable, maxX86InstructionLength
  <2>2. at = IF touched + n > 15 THEN 15 ELSE touched
    BY DEF maxX86InstructionLength
  <2>3. CASE Len(code) < 15
    <3>1. end = Len(code)
      BY <2>3 DEF maxX86InstructionLength
    <3> HIDE DEF end
    <3>2. end # maxX86InstructionLength
      <4>1. \A l \in Nat : l < 15 => l # 15
        OBVIOUS
      <4> QED BY <2>3, <3>1, <4>1, Zenon DEF maxX86InstructionLength
    <3>3. end \in Nat /\ touched <= end /\ touched + n > end
      BY <2>1, <2>3, <3>1
    <3> QED BY <2>1, <2>2, <3>2, <3>3 DEF maxX86InstructionLength
  <2>4. CASE Len(code) >= 15
    <3>1. end = 15
      BY <2>4 DEF maxX86InstructionLength
    <3> HIDE DEF end
    <3> QED BY <2>1, <2>2, <2>4, <3>1 DEF maxX86InstructionLength
  <2> QED BY <2>3, <2>4
<1>2. Fault(code) = [kind |-> "fault", at |-> end]
  BY DEF Fault
<1> HIDE DEF end
<1> QED BY <1>1, <1>2 DEF FaultAgrees

\* What a failed read could not read, and what it reports.
LEMMA FailedRead ==
    ASSUME NEW n \in 1 .. 4, pendingRead = <<touched, n>>, DecodeFault,
           touched \in Nat, Len(code) \in Nat, Readable(code, touched)
    PROVE  /\ ~Readable(code, touched + n)
           /\ Exit([kind |-> "fault",
                    at |-> IF touched + n > maxX86InstructionLength THEN maxX86InstructionLength
                           ELSE touched])
<1>1. pendingRead[1] = touched /\ pendingRead[2] = n
  OBVIOUS
<1>2. ~Readable(code, touched + n)
  BY <1>1 DEF DecodeFault, Fails, tooLong, outOfBounds, Readable, maxX86InstructionLength
<1>3. tooLong(pendingRead) <=> touched + n > maxX86InstructionLength
  BY <1>1 DEF tooLong
<1> QED BY <1>1, <1>2, <1>3 DEF DecodeFault

LEMMA FaultAlike ==
    ASSUME AgreeInv, DecodeFault, IsaResult = Fault(code), NEW n \in 1 .. 4,
           pendingRead = <<touched, n>>, n = 1 \/ reader # 0
    PROVE  AgreeInv'
<1> DEFINE at == IF touched + n > maxX86InstructionLength THEN maxX86InstructionLength ELSE touched
           how == [kind |-> "fault", at |-> at]
<1>1. touched \in Nat /\ Len(code) \in Nat /\ Readable(code, touched)
  BY DEF AgreeInv, DecoderInv, DecoderTyped, ReadsStayInside
<1>2. ~Readable(code, touched + n) /\ Exit(how)
  BY <1>1, FailedRead
<1>3. IsaResult.kind = "fault" /\ how.kind = "fault" /\ how.at = at
  BY DEF Fault
<1>4. FaultAgrees(at)
  BY <1>1, <1>2, FaultNear
<1> HIDE DEF how, at
<1>5. Agreed(how)
  BY <1>3, <1>4 DEF Agreed
<1>6. DecoderInv'
  BY DecodeFaultKeeps DEF AgreeInv
<1> QED BY <1>2, <1>5, <1>6, ExitAlike

-----------------------------------------------------------------------------
(* Faults.                                                                  *)

\* Operand bytes and displacements are at most four.
LEMMA AtMostFourBytes ==
    ASSUME NEW o \in OperandSpecs
    PROVE  EncodedBytes(o) \in 0 .. 4
BY DEF OperandSpecs, EncodedBytes, Widths

LEMMA DisplacementBytesOf ==
    ASSUME NEW mod, NEW baseAt
    PROVE  DisplacementWidth(mod, baseAt) \div 8 \in 0 .. 4
<1>1. DisplacementWidth(mod, baseAt) \in {0, 8, 32}
  BY DEF DisplacementWidth
<1> QED BY <1>1

\* The address in memory, as far as it has been read.
LEMMA MemoryOperand ==
    ASSUME AgreeInv, decoding, rmInMemory
    PROVE  /\ ReadsModRm /\ AddressPending /\ IsaRm = decodeModRmAddressing(code, NextByte)
           /\ modrm = ByteAt(code, NextByte) /\ Mod(modrm) # 3
           /\ reader = NextByte + 1 + (IF sib = NoByte THEN 0 ELSE 1)
           /\ needsSib <=> HasSib(modrm) /\ sib = NoByte
           /\ ~needsSib => baseField = BaseAt(code, NextByte)
           /\ ~needsSib => reader = NextByte + (IF HasSib(modrm) THEN 2 ELSE 1)
<1>1. operand.kind = "modrm.rm" /\ Mod(modrm) # 3
  BY DEF rmInMemory
<1>2. stage = "operands" /\ ReadsModRm /\ AddressPending
  BY <1>1, NextOperand
<1>3. /\ reader = NextByte + 1 + (IF sib = NoByte THEN 0 ELSE 1)
      /\ sib # NoByte => HasSib(modrm) /\ sib = ByteAt(code, NextByte + 1)
  BY <1>2 DEF AgreeInv, OperandsBound
<1>4. modrm = ByteAt(code, NextByte)
  BY <1>2 DEF AgreeInv, FormChosen
<1>5. needsSib <=> HasSib(modrm) /\ sib = NoByte
  BY DEF needsSib
<1>6. ~needsSib => baseField = BaseAt(code, NextByte)
  BY <1>3, <1>4, <1>5 DEF baseField, BaseAt
<1>7. IsaRm = decodeModRmAddressing(code, NextByte)
  BY <1>2 DEF IsaRm
<1>8. ~needsSib => reader = NextByte + (IF HasSib(modrm) THEN 2 ELSE 1)
  <2>1. NextByte \in Nat
    BY <1>2, OperandsRead
  <2> QED BY <1>3, <1>5, <2>1
<1> QED BY <1>1, <1>2, <1>3, <1>4, <1>5, <1>6, <1>7, <1>8

LEMMA SibFault ==
    ASSUME AgreeInv, DecodeFault, decoding, needsSib PROVE AgreeInv'
<1>1. rmInMemory /\ stage = "operands" /\ operandsLeft
  BY DEF needsSib, decoding
<1>2. /\ ReadsModRm /\ modrm = ByteAt(code, NextByte) /\ HasSib(modrm) /\ sib = NoByte
      /\ reader = NextByte + 1
  BY <1>1, MemoryOperand, OperandsRead
<1>3. /\ NextByte \in Nat /\ touched = reader /\ touched \in Nat /\ Len(code) \in Nat
      /\ Readable(code, touched) /\ Readable(code, NextByte + 1)
  BY <1>1, <1>2, OperandsRead
<1>4. pendingRead = <<touched, 1>>
  BY <1>1, <1>3 DEF pendingRead, operandRead
<1>5. ~Readable(code, touched + 1)
  BY <1>3, <1>4, FailedRead
<1>6. ~Readable(code, NextByte + 2)
  <2>1. touched + 1 = NextByte + 2
    BY <1>2, <1>3
  <2> QED BY <1>5, <2>1
<1>7. rm32ModRmByteLengthAt(code, NextByte) = 2
  BY <1>2, <1>3, <1>6, AddressBytes
<1>8. IsaResult = Fault(code)
  BY <1>1, <1>2, <1>6, <1>7, IsaAddressed
<1> QED BY <1>4, <1>8, FaultAlike

LEMMA DisplacementFault ==
    ASSUME AgreeInv, DecodeFault, decoding, rmInMemory, ~needsSib PROVE AgreeInv'
<1> DEFINE n == displacementWidth \div 8
           rm == decodeModRmAddressing(code, NextByte)
<1>1. stage = "operands" /\ operandsLeft
  BY DEF decoding
<1>2. /\ ReadsModRm /\ modrm = ByteAt(code, NextByte) /\ Mod(modrm) # 3
      /\ reader = NextByte + (IF HasSib(modrm) THEN 2 ELSE 1)
      /\ baseField = BaseAt(code, NextByte)
  BY MemoryOperand
<1>3. /\ NextByte \in Nat /\ touched = reader /\ touched \in Nat /\ Len(code) \in Nat
      /\ Readable(code, touched) /\ Readable(code, NextByte + 1)
  BY <1>1, <1>2, OperandsRead
<1>4. n \in 0 .. 4
  BY DisplacementBytesOf DEF displacementWidth
<1>5. pendingRead = <<touched, n>>
  BY <1>1, <1>3 DEF pendingRead, operandRead
<1>6. n \in 1 .. 4
  <2>1. pendingRead[2] = n
    BY <1>5
  <2> HIDE DEF n
  <2>2. n > 0
    BY <2>1 DEF DecodeFault, Fails
  <2> QED BY <1>4, <2>2
<1>7. ~Readable(code, touched + n)
  <2> HIDE DEF n
  <2> QED BY <1>3, <1>5, <1>6, FailedRead
<1>8. rm.length = (IF HasSib(modrm) THEN 2 ELSE 1) + n
  BY <1>2, <1>3, AddressOf DEF displacementWidth
<1>9. touched + n = NextByte + rm.length
  <2> HIDE DEF n, rm
  <2> QED BY <1>2, <1>3, <1>4, <1>8
<1>10. HasSib(modrm) => Readable(code, NextByte + 2)
  BY <1>2, <1>3
<1>11. rm32ModRmByteLengthAt(code, NextByte) = rm.length
  <2> HIDE DEF n
  <2> QED BY <1>2, <1>3, <1>10, AddressBytes
<1>12. IsaResult = Fault(code)
  BY <1>1, <1>2, <1>7, <1>9, <1>11, IsaAddressed
<1>13. reader # 0
  BY <1>1, OperandsRead
<1> HIDE DEF n
<1> QED BY <1>5, <1>6, <1>12, <1>13, FaultAlike

\* An immediate or a relative target.
LEMMA BytesFault ==
    ASSUME AgreeInv, DecodeFault, decoding, ~rmInMemory PROVE AgreeInv'
<1> DEFINE n == EncodedBytes(operand)
           k == Len(operands) + 1
<1>1. stage = "operands" /\ operandsLeft
  BY DEF decoding
<1>2. k \in 1 .. Len(Encoded) /\ operand = Encoded[k] /\ operand \in OperandSpecs
  BY NextOperand
<1>3. /\ Encoded \in Seq(OperandSpecs) /\ Len(Encoded) \in Nat /\ IsaStart \in Nat
      /\ touched = reader /\ touched \in Nat /\ Len(code) \in Nat /\ Readable(code, touched)
  BY <1>1, OperandsRead
<1>4. pendingRead = <<touched, n>>
  BY <1>1, <1>3 DEF pendingRead, operandRead, needsSib
<1>5. n \in 0 .. 4
  BY <1>2, AtMostFourBytes
<1>6. n \in 1 .. 4
  <2>1. pendingRead[2] = n
    BY <1>4
  <2> HIDE DEF n
  <2>2. n > 0
    BY <2>1 DEF DecodeFault, Fails
  <2> QED BY <1>5, <2>2
<1>7. ~Readable(code, touched + n)
  <2> HIDE DEF n
  <2> QED BY <1>3, <1>4, <1>6, FailedRead
<1>8. ~AddressPending
  <2>1. SUFFICES ASSUME AddressPending PROVE FALSE
    OBVIOUS
  <2>2. \A j \in 1 .. Len(operands) + 1 : EncodedBytes(Encoded[j]) = 0
    BY <1>1, <2>1, PendingAddress
  <2>3. k \in 1 .. Len(operands) + 1
    BY <1>2
  <2>4. n = 0
    BY <1>2, <2>2, <2>3
  <2> HIDE DEF n
  <2> QED BY <1>6, <2>4
<1>9. reader = OperandAt(Encoded, IsaStart, k)
  BY <1>1, <1>8 DEF AgreeInv, OperandsBound
<1>10. IsaLength \in Nat /\ touched + n <= IsaLength
  <2>1. OperandAt(Encoded, IsaStart, k + 1) = OperandAt(Encoded, IsaStart, k) + n
    BY <1>2, <1>3, OperandAtEquation
  <2>2. k + 1 \in 1 .. Len(Encoded) + 1 /\ Len(Encoded) + 1 \in 1 .. Len(Encoded) + 1
    BY <1>2, <1>3
  <2>3. /\ OperandAt(Encoded, IsaStart, k + 1) <= IsaLength
        /\ IsaLength \in Nat
    <3> HIDE DEF k
    <3> QED BY <1>3, <2>2, OperandsAscend DEF IsaLength
  <2> QED BY <1>3, <1>9, <2>1, <2>3
<1>11. ~Readable(code, IsaLength)
  <2>1. touched + n \in Nat
    <3> HIDE DEF n
    <3> QED BY <1>3, <1>6
  <2> HIDE DEF n
  <2> QED BY <1>3, <1>7, <1>10, <2>1, EarlierReadable
<1>12. IsaResult = Fault(code)
  BY <1>1, <1>8, <1>11, IsaBehindOperands
<1>13. reader # 0
  BY <1>1, OperandsRead
<1> HIDE DEF n
<1> QED BY <1>4, <1>6, <1>12, <1>13, FaultAlike

LEMMA DecodeFaultAlike ==
    ASSUME AgreeInv, DecodeFault PROVE AgreeInv'
<1>1. /\ touched \in Nat /\ Len(code) \in Nat /\ Readable(code, touched)
      /\ Fails(pendingRead)
  BY DEF AgreeInv, DecoderInv, DecoderTyped, ReadsStayInside, DecodeFault
<1>2. CASE stage \in {"opcode", "modrm"}
  <2>1. pendingRead = <<touched, 1>> /\ touched = NextByte
    BY <1>2, SwitchNode DEF pendingRead, modRmOffset, NextByte, AgreeInv, DecoderInv, AtSwitch, ReadSoFar
  <2>2. ~Readable(code, NextByte + 1)
    BY <1>1, <2>1, FailedRead
  <2>3. CASE stage = "opcode"
    BY <2>1, <2>2, <2>3, IsaOpcodeFault, FaultAlike
  <2>4. CASE stage = "modrm"
    <3>1. IsaResult = dispatchModRm(code, candidates, NextByte)
      BY <2>4, IsaAtLeaf DEF AtLeaf, AgreeInv, BytesKept
    <3>2. rm32ModRmByteLengthAt(code, NextByte) = 1
      BY <2>2 DEF rm32ModRmByteLengthAt
    <3>3. IsaResult = Fault(code)
      BY <2>2, <3>1, <3>2 DEF dispatchModRm
    <3> QED BY <2>1, <3>3, FaultAlike
  <2> QED BY <1>2, <2>3, <2>4
<1>3. CASE stage = "operands"
  <2>1. CASE ~operandsLeft
    <3>1. pendingRead = <<0, 0>>
      BY <1>3, <2>1 DEF pendingRead, operandRead, NoRead
    <3> QED BY <1>1, <3>1 DEF Fails
  <2>2. CASE operandsLeft
    <3>1. decoding
      BY <1>3, <2>2 DEF decoding
    <3> QED BY <3>1, SibFault, DisplacementFault, BytesFault DEF needsSib
  <2> QED BY <2>1, <2>2
<1>4. CASE stage \notin {"opcode", "modrm", "operands"}
  <2>1. pendingRead = <<0, 0>>
    BY <1>4 DEF pendingRead, NoRead
  <2> QED BY <1>1, <2>1 DEF Fails
<1> QED BY <1>2, <1>3, <1>4

-----------------------------------------------------------------------------
(* Opcode bytes.                                                            *)

\* The byte that is dispatched on and the node it leads to.
LEMMA DispatchedByte ==
    ASSUME AgreeInv, stage = "dispatch"
    PROVE  /\ byte = ByteAt(code, NextByte) /\ byte \in 0 .. 255 /\ opcode = byte
           /\ Append(node, byte) = OpcodeBytes(Len(node) + 1)
           /\ Len(Append(node, byte)) = Len(node) + 1
           /\ LastByte(Append(node, byte)) = byte
           /\ Append(node, byte) # <<>>
           /\ node \in Nodes \ Leaves
           /\ OpcodeCase = IF byte \in dispatchBytesForContext(node) THEN {byte} ELSE {}
<1>1. /\ opcodeOffset \in Nat /\ Len(node) \in Nat /\ NextByte = opcodeOffset + Len(node)
      /\ NextByte + 1 <= Len(code)
  BY OpcodeRead DEF Decoding
<1>2. byte = ByteAt(code, NextByte) /\ opcode = byte
  BY DEF AgreeInv, BytesKept
<1>3. node = OpcodeBytes(Len(node)) /\ node \in Nodes \ Leaves
  BY DEF AgreeInv, DecoderInv, AtSwitch, PathRead
<1>4. code \in Seq(0 .. 255)
  BY DEF AgreeInv, DecoderInv, DecoderTyped
<1> DEFINE n == Len(node)
           S == 0 .. 255
<1>5. /\ OpcodeBytes(n) \in Seq(S)
      /\ Append(OpcodeBytes(n), ByteAt(code, opcodeOffset + n)) = OpcodeBytes(n + 1)
      /\ ByteAt(code, opcodeOffset + n) \in S
  <2>1. opcodeOffset + n + 1 <= Len(code) /\ code \in Seq(S)
    BY <1>1, <1>4
  <2>2. opcodeOffset + (n + 1) = opcodeOffset + n + 1 /\ n \in Nat
    BY <1>1
  <2> HIDE DEF S, n
  <2>3. /\ SubSeq(code, opcodeOffset + 1, opcodeOffset + n) \in Seq(S)
        /\ Append(SubSeq(code, opcodeOffset + 1, opcodeOffset + n), ByteAt(code, opcodeOffset + n))
             = SubSeq(code, opcodeOffset + 1, opcodeOffset + n + 1)
        /\ ByteAt(code, opcodeOffset + n) \in S
    <3>1. opcodeOffset \in Nat /\ n \in Nat /\ opcodeOffset + n + 1 <= Len(code) /\ code \in Seq(S)
      BY <1>1, <2>1, <2>2
    <3> QED BY <3>1, PartExtended, Zenon
  <2> QED BY <2>2, <2>3 DEF OpcodeBytes
<1>6. node \in Seq(S) /\ byte \in S /\ Append(node, byte) = OpcodeBytes(n + 1)
  BY <1>1, <1>2, <1>3, <1>5
<1>7. /\ Len(Append(node, byte)) = Len(node) + 1 /\ LastByte(Append(node, byte)) = byte
      /\ Append(node, byte) # <<>>
  <2> HIDE DEF S
  <2> QED BY <1>6 DEF LastByte
<1> QED BY <1>2, <1>3, <1>6, <1>7, OpcodeCaseIs

LEMMA LoadOpcodeByteAlike ==
    ASSUME AgreeInv, LoadOpcodeByte PROVE AgreeInv'
<1>1. /\ stage = "opcode" /\ stage' = "dispatch" /\ byte' = PendingByte /\ opcode' = PendingByte
      /\ UNCHANGED <<code, opcodeOffset, mode, node, modrm, sib, chosen, reader, operands, result>>
  BY DEF LoadOpcodeByte
<1>2. PendingByte = ByteAt(code, NextByte)
  <2>1. pendingRead = <<NextByte, 1>>
    BY <1>1, SwitchNode DEF pendingRead, NextByte, AgreeInv, DecoderInv, AtSwitch
  <2>2. pendingRead[1] = NextByte
    BY <2>1
  <2> QED BY <2>2 DEF PendingByte
<1>3. NextByte' = NextByte
  BY <1>1 DEF NextByte
<1>4. BytesKept'
  <2>1. sib = NoByte /\ operands = <<>>
    BY <1>1 DEF AgreeInv, BytesKept
  <2>2. byte' = ByteAt(code', NextByte') /\ opcode' = byte'
    BY <1>1, <1>2, <1>3
  <2> QED BY <1>1, <2>1, <2>2 DEF BytesKept, AtLeaf
<1>5. PrefixesRead' /\ PathRead'
  BY <1>1 DEF AgreeInv, PrefixesRead, PathRead, OpcodeBytes, AtLeaf
<1>6. FormChosen' /\ OperandsBound' /\ Alike'
  BY <1>1 DEF FormChosen, OperandsBound, Alike, DecodersAgree, RefusalsAgree
<1>7. DecoderInv'
  BY LoadOpcodeByteKeeps DEF AgreeInv
<1> QED BY <1>4, <1>5, <1>6, <1>7 DEF AgreeInv

LEMMA UnsupportedOpcodeAlike ==
    ASSUME AgreeInv, UnsupportedOpcode PROVE AgreeInv'
<1>1. stage = "dispatch" /\ OpcodeCase = {} /\ Exit(Unsupported(0))
  BY DEF UnsupportedOpcode
<1> DEFINE n == Len(node) + 1
<1>2. /\ opcodeOffset \in Nat /\ Len(node) \in Nat /\ NextByte = opcodeOffset + Len(node)
      /\ NextByte + 1 <= Len(code) /\ Readable(code, NextByte + 1) /\ Len(code) \in Nat
  BY <1>1, OpcodeRead DEF Decoding
<1>3. /\ byte = ByteAt(code, NextByte) /\ byte \in 0 .. 255
      /\ Append(node, byte) = OpcodeBytes(n) /\ node \in Nodes \ Leaves
      /\ byte \notin dispatchBytesForContext(node)
  BY <1>1, DispatchedByte
<1>4. Append(node, byte) \notin Nodes /\ (node = <<>> => byte # OperandSizePrefix)
  BY <1>3 DEF dispatchBytesForContext, dispatchBytes
<1>5. OpcodeBytes(n) \notin Nodes /\ OpcodeBytes(n) \notin Leaves
  BY <1>3, <1>4, LeavesAreNodes
<1>6. decodePrefixes(code) = opcodeOffset /\ opcodeLength(code, opcodeOffset) = n
  <2>1. node # <<>> \/ (NextByte < Len(code) /\ ByteAt(code, NextByte) # OperandSizePrefix)
    BY <1>2, <1>3, <1>4
  <2>2. n \in Nat \ {0} /\ n = Len(node) + 1
    BY <1>2
  <2> HIDE DEF n
  <2> QED BY <1>1, <1>3, <1>5, <2>1, <2>2, OpcodeEnds DEF Decoding
<1>7. opcodeOffset + n = NextByte + 1
  BY <1>2
<1>8. \A m : Candidates(OpcodeBytes(n), m) = {}
  BY <1>5 DEF Candidates, Leaves
<1> HIDE DEF n
<1>9. IsaResult = Unsupported(opcodeOffset + n)
  BY <1>2, <1>6, <1>7, <1>8
     DEF IsaResult, decodeIsaInstructionFromReader, OpcodeBytes, candidatesKind
<1> QED BY <1>1, <1>9, RefusedAlike

LEMMA PrefixCaseAlike ==
    ASSUME AgreeInv, PrefixCase PROVE AgreeInv'
<1>1. /\ stage = "dispatch" /\ stage' = "opcode" /\ opcodeOffset' = opcodeOffset + 1
      /\ mode' = "override"
      /\ UNCHANGED <<code, node, byte, opcode, modrm, sib, chosen, reader, operands, touched, result>>
  BY DEF PrefixCase
<1>2. PICK b \in OpcodeCase : node = <<>> /\ b = OperandSizePrefix
  BY DEF PrefixCase, isOperandSizePrefixCase
<1>3. byte = OperandSizePrefix /\ byte = ByteAt(code, NextByte) /\ node \in Nodes \ Leaves
  BY <1>1, <1>2, DispatchedByte
<1>4. opcodeOffset \in Nat /\ NextByte = opcodeOffset /\ Len(node) = 0
  <2>1. Len(node) = 0 /\ opcodeOffset \in Nat
    BY <1>1, <1>2, OpcodeRead DEF Decoding
  <2> QED BY <2>1 DEF NextByte
<1>5. PrefixesRead'
  <2>1. ASSUME NEW i \in 1 .. opcodeOffset + 1 PROVE ByteAt(code, i - 1) = OperandSizePrefix
    <3>1. CASE i = opcodeOffset + 1
      <4>1. i - 1 = opcodeOffset
        BY <1>4, <3>1
      <4> QED BY <1>3, <1>4, <4>1
    <3>2. CASE i # opcodeOffset + 1
      <4>1. i \in 1 .. opcodeOffset
        BY <1>4, <3>2
      <4> QED BY <4>1 DEF AgreeInv, PrefixesRead
    <3> QED BY <3>1, <3>2
  <2>2. opcodeOffset + 1 # 0
    BY <1>4
  <2> QED BY <1>1, <1>2, <2>1, <2>2 DEF PrefixesRead
<1>6. PathRead'
  <2>1. SubSeq(code, opcodeOffset' + 1, opcodeOffset' + 0) = <<>>
    BY <1>1, <1>4
  <2>2. node' = OpcodeBytes(Len(node))'
    BY <1>1, <1>2, <1>4, <2>1 DEF OpcodeBytes
  <2>3. 1 .. Len(node') - 1 = {}
    BY <1>1, <1>4
  <2> QED BY <1>1, <1>3, <2>2, <2>3 DEF PathRead, AtLeaf
<1>7. BytesKept'
  BY <1>1 DEF AgreeInv, BytesKept, AtLeaf
<1>8. FormChosen' /\ OperandsBound' /\ Alike'
  BY <1>1 DEF FormChosen, OperandsBound, Alike, DecodersAgree, RefusalsAgree
<1>9. DecoderInv'
  BY PrefixCaseKeeps DEF AgreeInv
<1> QED BY <1>5, <1>6, <1>7, <1>8, <1>9 DEF AgreeInv

LEMMA OpcodeNodeAlike ==
    ASSUME AgreeInv, OpcodeNode PROVE AgreeInv'
<1>1. /\ stage = "dispatch" /\ stage' = IF node' \in Leaves THEN "leaf" ELSE "opcode"
      /\ UNCHANGED <<code, opcodeOffset, mode, byte, opcode, modrm, sib, chosen, reader, operands,
                     touched, result>>
  BY DEF OpcodeNode
<1>2. PICK b \in OpcodeCase : ~isOperandSizePrefixCase(b) /\ node' = Append(node, b)
  BY DEF OpcodeNode
<1>3. /\ opcodeOffset \in Nat /\ Len(node) \in Nat /\ NextByte = opcodeOffset + Len(node)
  BY <1>1, OpcodeRead DEF Decoding
<1>4. /\ byte = ByteAt(code, NextByte) /\ opcode = byte
      /\ Append(node, byte) = OpcodeBytes(Len(node) + 1)
      /\ Len(Append(node, byte)) = Len(node) + 1
      /\ LastByte(Append(node, byte)) = byte
      /\ Append(node, byte) # <<>>
      /\ node \in Nodes \ Leaves
      /\ OpcodeCase = IF byte \in dispatchBytesForContext(node) THEN {byte} ELSE {}
  BY <1>1, DispatchedByte
<1>5. b = byte /\ byte \in dispatchBytesForContext(node)
  BY <1>2, <1>4
<1>6. node' = Append(node, byte) /\ node' \in Nodes /\ ~(node = <<>> /\ byte = OperandSizePrefix)
  BY <1>2, <1>5 DEF dispatchBytesForContext, dispatchBytes, isOperandSizePrefixCase
<1>7. ByteAt(code, opcodeOffset) # OperandSizePrefix
  <2>1. CASE node = <<>>
    <3>1. Len(node) = 0
      BY <2>1
    <3> QED BY <1>3, <1>4, <1>6, <2>1, <3>1
  <2>2. CASE node # <<>>
    BY <2>2 DEF AgreeInv, PrefixesRead
  <2> QED BY <2>1, <2>2
<1>8. PrefixesRead'
  BY <1>1, <1>7 DEF AgreeInv, PrefixesRead
<1>9. PathRead'
  <2> DEFINE k == Len(node) + 1
  <2>1. Len(node') = k /\ node' = OpcodeBytes(k)
    BY <1>4, <1>6
  <2>2. node' = OpcodeBytes(Len(node'))
    BY <2>1
  <2>3. ASSUME NEW n \in 1 .. Len(node) PROVE OpcodeBytes(n) \in Nodes \ Leaves
    <3>1. CASE n = Len(node)
      BY <1>4, <3>1 DEF AgreeInv, PathRead
    <3>2. CASE n # Len(node)
      <4>1. n \in 1 .. Len(node) - 1
        BY <1>3, <3>2
      <4> QED BY <4>1 DEF AgreeInv, PathRead
    <3> QED BY <3>1, <3>2
  <2>4. \A n \in 1 .. Len(node') - 1 : OpcodeBytes(n) \in Nodes \ Leaves
    <3>1. Len(node') - 1 = Len(node)
      BY <1>3, <2>1
    <3> QED BY <2>3, <3>1
  <2>5. stage' \in AtLeaf => node' \in Leaves
    BY <1>1, <1>6 DEF AtLeaf
  <2>6. code' = code /\ opcodeOffset' = opcodeOffset
    BY <1>1
  <2> QED BY <2>2, <2>4, <2>5, <2>6 DEF PathRead, OpcodeBytes
<1>10. BytesKept'
  <2>1. sib = NoByte /\ operands = <<>>
    BY <1>1 DEF AgreeInv, BytesKept
  <2>2. opcode' = LastByte(node')
    BY <1>1, <1>4, <1>6
  <2> QED BY <1>1, <2>1, <2>2 DEF BytesKept, AtLeaf
<1>11. FormChosen' /\ OperandsBound' /\ Alike'
  BY <1>1 DEF FormChosen, OperandsBound, Alike, DecodersAgree, RefusalsAgree
<1>12. DecoderInv'
  BY OpcodeNodeKeeps DEF AgreeInv
<1> QED BY <1>8, <1>9, <1>10, <1>11, <1>12 DEF AgreeInv

-----------------------------------------------------------------------------
(* The handler of a leaf.                                                   *)

\* What a step inside a handler leaves alone.
LEMMA LeafKept ==
    ASSUME AgreeInv, stage \in AtLeaf, stage' \in AtLeaf,
           UNCHANGED <<code, opcodeOffset, mode, node, opcode>>
    PROVE  /\ PrefixesRead' /\ PathRead' /\ Alike'
           /\ candidates' = candidates /\ NextByte' = NextByte
           /\ opcode' = LastByte(node')
<1>1. stage' # "done" /\ stage' \notin {"opcode", "dispatch"} /\ stage # "done"
  BY DEF AtLeaf
<1>2. PrefixesRead' /\ Alike'
  BY <1>1 DEF AgreeInv, PrefixesRead, Alike, DecodersAgree, RefusalsAgree
<1>3. PathRead'
  BY <1>1 DEF AgreeInv, PathRead, OpcodeBytes
<1>4. candidates' = candidates /\ NextByte' = NextByte
  BY DEF candidates, NextByte
<1>5. opcode' = LastByte(node')
  BY DEF AgreeInv, BytesKept
<1> QED BY <1>2, <1>3, <1>4, <1>5

LEMMA NoHandlerAlike ==
    ASSUME AgreeInv, NoHandler PROVE AgreeInv'
<1>1. stage = "leaf" /\ candidatesKind(candidates) = "empty" /\ Exit(Unsupported(0))
  BY DEF NoHandler
<1>2. IsaResult = Unsupported(NextByte)
  BY <1>1, IsaAtLeaf DEF AtLeaf
<1> QED BY <1>1, <1>2, RefusedAlike

\* The ModRM byte of a handler that has read it.
LEMMA ModRmByte ==
    ASSUME AgreeInv, stage \in {"select", "operands"}, stage = "operands" => ReadsModRm
    PROVE  /\ modrm = ByteAt(code, NextByte) /\ modrm \in 0 .. 255
           /\ RegField(modrm) \in 0 .. 7 /\ RmField(modrm) \in 0 .. 7
<1>1. modrm = ByteAt(code, NextByte)
  BY DEF AgreeInv, BytesKept, FormChosen
<1>2. NextByte \in Nat /\ NextByte + 1 <= Len(code)
  BY OpcodeRead, OperandsRead DEF Decoding, AtLeaf
<1>3. code \in Seq(0 .. 255)
  BY DEF AgreeInv, DecoderInv, DecoderTyped
<1> DEFINE S == 0 .. 255
<1>4. modrm \in S
  <2>1. code \in Seq(S)
    BY <1>3
  <2> HIDE DEF S
  <2> QED BY <1>1, <1>2, <2>1 DEF ByteAt
<1> QED BY <1>1, <1>4 DEF RegField, RmField

\* No operand is bound when the operands begin.
LEMMA OperandsBegin ==
    ASSUME DecoderInv', stage' = "operands", operands' = <<>>, sib' = NoByte,
           reader' = IF ReadsModRm' THEN NextByte' + 1 ELSE NextByte', NextByte' \in Nat,
           ReadsModRm' => AddressFirst(chosen'.spec)
    PROVE  OperandsBound'
<1>1. chosen' \in Expanded
  BY DEF DecoderInv, DecoderTyped
<1>2. Encoded' = chosen'.spec.operands
  BY DEF Encoded
<1>3. Encoded' \in Seq(OperandSpecs)
  BY <1>1, <1>2, ExpandedForm
<1>4. Len(operands') = 0 /\ Len(Encoded') \in Nat /\ DOMAIN Encoded' = 1 .. Len(Encoded')
  BY <1>3
<1>5. AddressPending' <=> ReadsModRm' /\ \E i \in 1 .. Len(Encoded') : Encoded'[i].kind = "modrm.rm"
  <2>1. AddressPending' <=> \E i \in 1 .. Len(Encoded') : Encoded'[i].kind = "modrm.rm"
    BY <1>4 DEF AddressPending
  <2>2. ReadsModRm' <=> instructionReadsModRm(chosen'.spec)
    BY DEF ReadsModRm
  <2> QED BY <1>2, <1>4, <2>1, <2>2 DEF instructionReadsModRm
<1>6. CASE ReadsModRm'
  <2>1. \E i \in 1 .. Len(Encoded') : Encoded'[i].kind = "modrm.rm"
    BY <1>2, <1>4, <1>6 DEF AddressFirst
  <2>2. AddressPending'
    BY <1>5, <1>6, <2>1
  <2>3. reader' = NextByte' + 1 + (IF sib' = NoByte THEN 0 ELSE 1)
    BY <1>6
  <2>4. reader' >= NextByte' + 1
    <3>1. \A m \in Nat : m + 1 >= m + 1
      OBVIOUS
    <3>2. NextByte' \in Nat /\ reader' = NextByte' + 1
      BY <1>6
    <3> QED BY <3>1, <3>2, Zenon
  <2>5. Len(operands') <= Len(Encoded') /\ \A i \in 1 .. Len(operands') : FALSE
    BY <1>4
  <2> QED BY <1>6, <2>2, <2>3, <2>4, <2>5 DEF OperandsBound
<1>7. CASE ~ReadsModRm'
  <2>1. ~AddressPending'
    BY <1>5, <1>7
  <2>2. IsaStart' = NextByte' /\ IsaRm' = NoRm
    BY <1>7 DEF IsaStart, IsaRm
  <2>3. OperandAt(Encoded', IsaStart', 1) = IsaStart'
    BY <1>4, OperandAtEquation
  <2>4. IsaRm'.kind # "reg"
    BY <2>2 DEF NoRm
  <2>5. reader' = OperandAt(Encoded', IsaStart', Len(operands') + 1)
    BY <1>4, <1>7, <2>2, <2>3
  <2> QED BY <1>4, <1>7, <2>1, <2>4, <2>5 DEF OperandsBound
<1> QED BY <1>6, <1>7

LEMMA NoModRmHandlerAlike ==
    ASSUME AgreeInv, NoModRmHandler PROVE AgreeInv'
<1>1. /\ stage = "leaf" /\ candidatesKind(candidates) = "noModRm"
      /\ chosen' = CHOOSE e \in candidates : TRUE
      /\ reader' = opcodeOffset + Len(node) /\ stage' = "operands"
      /\ UNCHANGED <<code, opcodeOffset, mode, node, byte, opcode, modrm, sib, operands, touched,
                     result>>
  BY DEF NoModRmHandler
<1>2. /\ PrefixesRead' /\ PathRead' /\ Alike' /\ opcode' = LastByte(node')
      /\ candidates' = candidates /\ NextByte' = NextByte
  BY <1>1, LeafKept DEF AtLeaf
<1>3. DecoderInv'
  BY NoModRmHandlerKeeps DEF AgreeInv
<1>4. candidates # {} /\ \A e \in candidates : ~instructionReadsModRm(e.spec)
  BY <1>1 DEF candidatesKind
<1>5. chosen' \in candidates /\ ~ReadsModRm'
  BY <1>1, <1>4 DEF ReadsModRm
<1>6. sib' = NoByte /\ operands' = <<>>
  BY <1>1 DEF AgreeInv, BytesKept
<1>7. NextByte \in Nat /\ reader' = NextByte'
  BY <1>1, <1>2, OpcodeRead DEF Decoding, AtLeaf
<1>8. OperandsBound'
  BY <1>1, <1>2, <1>3, <1>5, <1>6, <1>7, OperandsBegin
<1>9. FormChosen'
  BY <1>1, <1>2, <1>5 DEF FormChosen
<1>10. BytesKept'
  BY <1>1, <1>2 DEF BytesKept
<1> QED BY <1>2, <1>3, <1>8, <1>9, <1>10 DEF AgreeInv

LEMMA ModRmHandlerAlike ==
    ASSUME AgreeInv, FormsDispatchable, ModRmHandler PROVE AgreeInv'
<1>1. /\ stage = "leaf" /\ candidatesKind(candidates) = "modRm" /\ stage' = "modrm"
      /\ UNCHANGED <<code, opcodeOffset, mode, node, byte, opcode, modrm, sib, chosen, reader,
                     operands, touched, result>>
  BY DEF ModRmHandler
<1>2. /\ PrefixesRead' /\ PathRead' /\ Alike' /\ opcode' = LastByte(node')
      /\ candidates' = candidates /\ NextByte' = NextByte
  BY <1>1, LeafKept DEF AtLeaf
<1>3. DecoderInv'
  BY ModRmHandlerKeeps DEF AgreeInv
<1>4. Apart(candidates)
  BY <1>1 DEF FormsDispatchable, Apart
<1>5. sib' = NoByte /\ operands' = <<>>
  BY <1>1 DEF AgreeInv, BytesKept
<1>6. BytesKept'
  BY <1>1, <1>2, <1>4, <1>5 DEF BytesKept
<1>7. FormChosen' /\ OperandsBound'
  BY <1>1 DEF FormChosen, OperandsBound
<1> QED BY <1>2, <1>3, <1>6, <1>7 DEF AgreeInv

LEMMA ReadModRmAlike ==
    ASSUME AgreeInv, ReadModRm PROVE AgreeInv'
<1>1. /\ stage = "modrm" /\ stage' = "select" /\ modrm' = PendingByte
      /\ UNCHANGED <<code, opcodeOffset, mode, node, byte, opcode, sib, chosen, reader, operands,
                     result>>
  BY DEF ReadModRm
<1>2. /\ PrefixesRead' /\ PathRead' /\ Alike' /\ opcode' = LastByte(node')
      /\ candidates' = candidates /\ NextByte' = NextByte
  BY <1>1, LeafKept DEF AtLeaf
<1>3. DecoderInv'
  BY ReadModRmKeeps DEF AgreeInv
<1>4. modrm' = ByteAt(code, NextByte)
  <2>1. pendingRead = <<NextByte, 1>>
    BY <1>1 DEF pendingRead, modRmOffset, NextByte
  <2>2. pendingRead[1] = NextByte
    BY <2>1
  <2> QED BY <1>1, <2>2 DEF PendingByte
<1>5. /\ sib' = NoByte /\ operands' = <<>>
      /\ Apart(candidates) /\ candidatesKind(candidates) = "modRm"
  BY <1>1 DEF AgreeInv, BytesKept
<1>6. modrm' = ByteAt(code', NextByte')
  BY <1>1, <1>2, <1>4
<1>7. BytesKept'
  BY <1>1, <1>2, <1>5, <1>6 DEF BytesKept
<1>8. FormChosen' /\ OperandsBound'
  BY <1>1 DEF FormChosen, OperandsBound
<1> QED BY <1>2, <1>3, <1>7, <1>8 DEF AgreeInv

LEMMA ModRmDispatchAlike ==
    ASSUME AgreeInv, ModRmDispatch PROVE AgreeInv'
<1> DEFINE depths == Depths(registerModRmPosition(registerModRmDispatchCases(candidates)))
           handlers == Landing(depths, registerModRmTable(depths, RegField(modrm)))
           matching == modRmByReg(candidates, RegField(modrm))
<1>1. stage = "select"
  BY DEF ModRmDispatch
<1>2. Apart(candidates) /\ candidatesKind(candidates) = "modRm"
  BY <1>1 DEF AgreeInv, BytesKept
<1>3. modrm = ByteAt(code, NextByte) /\ modrm \in 0 .. 255 /\ RegField(modrm) \in Reg3
  BY <1>1, ModRmByte DEF Reg3
<1>4. /\ handlers = {} <=> matching = {}
      /\ \A h \in handlers : matching = {h.form}
  BY <1>2, <1>3, ModRmCaseIs
<1>5. DecoderInv'
  BY ModRmDispatchKeeps DEF AgreeInv
<1>6. CASE handlers = {}
  <2>1. Exit(Unsupported(0))
    BY <1>6 DEF ModRmDispatch
  <2>2. IsaResult = dispatchModRm(code, candidates, NextByte)
    BY <1>1, <1>2, IsaAtLeaf DEF AtLeaf
  <2>3. IsaResult.kind \in {"fault", "unsupported"}
    BY <1>3, <1>4, <1>6, <2>2 DEF dispatchModRm, Fault, Unsupported
  <2>4. node \in Leaves
    BY <1>1 DEF AgreeInv, PathRead, AtLeaf
  <2>5. modrm # NoByte
    BY <1>3 DEF NoByte
  <2>6. Unsupported(0).kind = "unsupported"
    BY DEF Unsupported
  <2>7. Agreed(Unsupported(0))
    BY <1>4, <1>6, <2>3, <2>4, <2>5, <2>6 DEF Agreed
  <2> QED BY <1>5, <2>1, <2>7, ExitAlike
<1>7. CASE handlers # {}
  <2>1. /\ chosen' = (CHOOSE h \in handlers : TRUE).form
        /\ reader' = opcodeOffset + Len(node) + 1 /\ stage' = "operands"
        /\ UNCHANGED <<code, opcodeOffset, mode, node, byte, opcode, modrm, sib, operands, touched,
                       result>>
    BY <1>7 DEF ModRmDispatch
  <2>2. matching = {chosen'}
    <3> HIDE DEF handlers, matching
    <3> QED BY <1>4, <1>7, <2>1
  <2>3. chosen' \in candidates
    BY <2>2 DEF modRmByReg
  <2>4. /\ PrefixesRead' /\ PathRead' /\ Alike' /\ opcode' = LastByte(node')
        /\ candidates' = candidates /\ NextByte' = NextByte
    BY <1>1, <2>1, LeafKept DEF AtLeaf
  <2>5. ReadsModRm'
    <3>1. PICK e \in candidates : instructionReadsModRm(e.spec)
      BY <1>2 DEF candidatesKind
    <3>2. instructionReadsModRm(chosen'.spec)
      BY <1>2, <2>3, <3>1 DEF Apart
    <3> QED BY <3>2 DEF ReadsModRm
  <2>6. AddressFirst(chosen'.spec)
    <3>1. chosen' \in Expanded
      BY <2>3 DEF candidates, Candidates
    <3> QED BY <2>5, <3>1, ExpandedOpcode DEF ReadsModRm
  <2>7. sib' = NoByte /\ operands' = <<>>
    BY <1>1, <2>1 DEF AgreeInv, BytesKept
  <2>8. NextByte \in Nat /\ reader' = NextByte' + 1
    BY <1>1, <2>1, <2>4, OpcodeRead DEF Decoding, AtLeaf
  <2>9. OperandsBound'
    BY <1>5, <2>1, <2>4, <2>5, <2>6, <2>7, <2>8, OperandsBegin
  <2>10. FormChosen'
    <3>1. modrm' = ByteAt(code', NextByte') /\ modRmByReg(candidates', RegField(modrm')) = {chosen'}
      BY <1>3, <2>1, <2>2, <2>4
    <3> QED BY <1>2, <2>1, <2>3, <2>4, <2>5, <3>1 DEF FormChosen
  <2>11. BytesKept'
    BY <2>1, <2>4 DEF BytesKept
  <2> QED BY <1>5, <2>4, <2>9, <2>10, <2>11 DEF AgreeInv
<1> QED BY <1>6, <1>7

-----------------------------------------------------------------------------
(* Binding operands, as the ISA decoder has them.                           *)

\* What appending does to the elements of any sequence.
LEMMA AppendElements ==
    ASSUME NEW s, Sequence(s), NEW x
    PROVE  /\ Append(s, x)[Len(s) + 1] = x
           /\ \A i \in 1 .. Len(s) : Append(s, x)[i] = s[i]
<1> DEFINE S == ToSet(s) \cup {x}
<1>1. s \in Seq(S) /\ x \in S
  BY DEF Sequence
<1> HIDE DEF S
<1> QED BY <1>1

\* What a step of the operands leaves alone, and with it what the ISA decoder
\* takes for the address and the operands.
LEMMA OperandsKept ==
    ASSUME AgreeInv, stage = "operands", stage' = "operands",
           UNCHANGED <<code, opcodeOffset, mode, node, opcode, modrm, chosen, result>>
    PROVE  /\ PrefixesRead' /\ PathRead' /\ BytesKept' /\ FormChosen' /\ Alike'
           /\ NextByte' = NextByte /\ Encoded' = Encoded /\ IsaStart' = IsaStart /\ IsaRm' = IsaRm
           /\ ReadsModRm' = ReadsModRm
           /\ \A i : IsaOperand(i)' = IsaOperand(i)
<1>1. /\ PrefixesRead' /\ PathRead' /\ Alike' /\ opcode' = LastByte(node')
      /\ candidates' = candidates /\ NextByte' = NextByte
  BY LeafKept DEF AtLeaf
<1>2. BytesKept'
  BY <1>1 DEF BytesKept
<1>3. ReadsModRm' = ReadsModRm /\ Encoded' = Encoded
  BY DEF ReadsModRm, Encoded
<1>4. FormChosen'
  BY <1>1, <1>3 DEF AgreeInv, FormChosen
<1>5. IsaModRm' = IsaModRm /\ IsaRm' = IsaRm
  BY <1>1, <1>3 DEF IsaModRm, IsaRm
<1>6. IsaStart' = IsaStart
  BY <1>1, <1>3, <1>5 DEF IsaStart
<1>7. \A i : IsaOperand(i)' = IsaOperand(i)
  BY <1>3, <1>5, <1>6 DEF IsaOperand
<1> QED BY <1>1, <1>2, <1>3, <1>4, <1>5, <1>6, <1>7

\* An operand is bound as the ISA decoder has it, and the reader passes its
\* bytes: behind the address if this was the address.
LEMMA BoundAlike ==
    ASSUME AgreeInv, decoding, NEW binding, Bind(binding), DecoderInv',
           binding = IsaOperand(Len(operands) + 1),
           pendingRead[2] \in Nat,
           operand.kind # "modrm.rm" => pendingRead[2] = EncodedBytes(operand),
           operand.kind = "modrm.rm" =>
             /\ reader + pendingRead[2] = IsaStart
             /\ ~(operand.memoryOnly /\ IsaRm.kind = "reg")
    PROVE  AgreeInv'
<1> DEFINE k == Len(operands) + 1
           L == Len(Encoded)
           at(n) == OperandAt(Encoded, IsaStart, n)
<1>1. /\ stage = "operands" /\ k \in 1 .. L /\ operand = Encoded[k] /\ operand \in OperandSpecs
      /\ operand.kind = "modrm.rm" => AddressPending
  BY NextOperand
<1>2. /\ Encoded \in Seq(OperandSpecs) /\ L \in Nat /\ Len(operands) \in Nat /\ IsaStart \in Nat
      /\ reader \in Nat /\ NextByte \in Nat
  BY <1>1, OperandsRead
<1>3. /\ operands' = Append(operands, binding) /\ reader' = reader + pendingRead[2]
      /\ UNCHANGED <<code, stage, opcodeOffset, mode, node, byte, opcode, modrm, sib, chosen, result>>
  BY DEF Bind
<1>4. /\ PrefixesRead' /\ PathRead' /\ BytesKept' /\ FormChosen' /\ Alike'
      /\ NextByte' = NextByte /\ Encoded' = Encoded /\ IsaStart' = IsaStart /\ IsaRm' = IsaRm
      /\ ReadsModRm' = ReadsModRm
      /\ \A i : IsaOperand(i)' = IsaOperand(i)
  BY <1>1, <1>3, OperandsKept
<1>5. Len(operands') = k /\ \A i \in 1 .. k : operands'[i] = IsaOperand(i)
  <2>1. Sequence(operands)
    BY DEF AgreeInv, DecoderInv, DecoderTyped
  <2>2. Len(operands') = k /\ operands'[k] = binding
        /\ \A i \in 1 .. Len(operands) : operands'[i] = operands[i]
    BY <1>3, <2>1, AppendLonger, AppendElements
  <2>3. \A i \in 1 .. Len(operands) : operands[i] = IsaOperand(i)
    BY <1>1 DEF AgreeInv, OperandsBound
  <2>4. \A i \in 1 .. k : i = k \/ i \in 1 .. Len(operands)
    BY <1>2
  <2> QED BY <2>2, <2>3, <2>4
<1>6. reader' >= IF ReadsModRm THEN NextByte + 1 ELSE NextByte
  <2>1. reader >= IF ReadsModRm THEN NextByte + 1 ELSE NextByte
    BY <1>1 DEF AgreeInv, OperandsBound
  <2> QED BY <1>2, <1>3, <2>1
<1> DEFINE later == \E i \in k + 1 .. L : Encoded[i].kind = "modrm.rm"
<1>7. AddressPending' <=> later
  BY <1>4, <1>5 DEF AddressPending
<1>8. AddressPending <=> later \/ operand.kind = "modrm.rm"
  <2>1. \A i \in k .. L : i = k \/ i \in k + 1 .. L
    BY <1>1, <1>2
  <2>2. k \in k .. L /\ \A i \in k + 1 .. L : i \in k .. L
    BY <1>1, <1>2
  <2>3. AddressPending <=> \E i \in k .. L : Encoded[i].kind = "modrm.rm"
    BY DEF AddressPending
  <2> QED BY <1>1, <2>1, <2>2, <2>3
<1>9. at(k + 1) = at(k) + EncodedBytes(operand)
  BY <1>1, <1>2, OperandAtEquation
<1>10. CASE later
  <2>1. AddressPending
    BY <1>8, <1>10
  <2>2. /\ \A j \in 1 .. k : EncodedBytes(Encoded[j]) = 0
        /\ operand.kind = "modrm.rm" => \A j \in 1 .. L : Encoded[j].kind = "modrm.rm" => j = k
    BY <1>1, <2>1, PendingAddress
  <2>3. operand.kind # "modrm.rm"
    <3>1. PICK i \in k + 1 .. L : Encoded[i].kind = "modrm.rm"
      BY <1>10
    <3>2. i \in 1 .. L /\ i # k
      BY <1>1, <1>2
    <3> QED BY <2>2, <3>1, <3>2
  <2>4. pendingRead[2] = 0
    <3>1. k \in 1 .. k
      BY <1>1, <1>2
    <3> QED BY <1>1, <2>2, <2>3, <3>1
  <2>5. reader' = reader
    BY <1>2, <1>3, <2>4
  <2>6. /\ reader = NextByte + 1 + (IF sib = NoByte THEN 0 ELSE 1)
        /\ sib # NoByte => HasSib(modrm) /\ sib = ByteAt(code, NextByte + 1)
    BY <1>1, <2>1 DEF AgreeInv, OperandsBound
  <2>7. /\ reader' = NextByte' + 1 + (IF sib' = NoByte THEN 0 ELSE 1)
        /\ sib' # NoByte => HasSib(modrm') /\ sib' = ByteAt(code', NextByte' + 1)
    BY <1>3, <1>4, <2>5, <2>6
  <2>8. OperandsBound'
    BY <1>1, <1>4, <1>5, <1>6, <1>7, <1>10, <2>7 DEF OperandsBound
  <2> QED BY <1>4, <2>8 DEF AgreeInv
<1>11. CASE ~later
  <2>1. /\ reader' = at(k + 1)
        /\ \A i \in 1 .. L : ~(Encoded[i].memoryOnly /\ IsaRm.kind = "reg")
    <3>1. CASE operand.kind = "modrm.rm"
      <4>1. /\ \A j \in 1 .. k : EncodedBytes(Encoded[j]) = 0
            /\ \A j \in 1 .. L : Encoded[j].kind = "modrm.rm" => j = k
        BY <1>1, <3>1, PendingAddress
      <4>2. at(k + 1) = IsaStart
        <5>1. k \in 0 .. L
          BY <1>1, <1>2
        <5> HIDE DEF k
        <5> QED BY <1>2, <4>1, <5>1, NoBytesBefore
      <4>3. \A i \in 1 .. L : Encoded[i].memoryOnly => i = k
        <5>1. \A i \in 1 .. L : Encoded[i] \in OperandSpecs
          BY <1>2
        <5> QED BY <4>1, <5>1 DEF OperandSpecs
      <4> QED BY <1>1, <1>3, <3>1, <4>2, <4>3
    <3>2. CASE operand.kind # "modrm.rm"
      <4>1. ~AddressPending
        BY <1>8, <1>11, <3>2
      <4>2. /\ reader = at(k)
            /\ \A i \in 1 .. L : ~(Encoded[i].memoryOnly /\ IsaRm.kind = "reg")
        BY <1>1, <4>1 DEF AgreeInv, OperandsBound
      <4> QED BY <1>3, <1>9, <3>2, <4>2
    <3> QED BY <3>1, <3>2
  <2>2. reader' = OperandAt(Encoded', IsaStart', Len(operands') + 1)
    BY <1>4, <1>5, <2>1
  <2>3. OperandsBound'
    BY <1>1, <1>4, <1>5, <1>6, <1>7, <1>11, <2>1, <2>2 DEF OperandsBound
  <2> QED BY <1>4, <2>3 DEF AgreeInv
<1> QED BY <1>10, <1>11

\* The switch that turns a register number into an access goes to its case.
LEMMA RegisterCaseIs ==
    ASSUME NEW index \in 0 .. 7
    PROVE  RegisterCase(index) = index
BY DEF RegisterCase, registerIndexDispatchTable, RegisterCount, Reg3

\* What is read for an operand that is not in memory.
LEMMA PlainRead ==
    ASSUME AgreeInv, decoding, ~rmInMemory
    PROVE  /\ pendingRead[2] = EncodedBytes(operand) /\ pendingRead[2] \in Nat
           /\ pendingRead[2] # 0 => pendingRead[1] = reader
<1>1. stage = "operands" /\ operandsLeft /\ operand \in OperandSpecs
  BY NextOperand DEF decoding
<1>2. pendingRead = <<reader, EncodedBytes(operand)>>
  BY <1>1 DEF pendingRead, operandRead, needsSib
<1> QED BY <1>1, <1>2, OperandBytes

LEMMA BindRegisterAlike ==
    ASSUME AgreeInv, BindRegister PROVE AgreeInv'
<1> DEFINE index == CASE operand.kind = "modrm.reg" -> RegisterCase(RegField(modrm))
                      [] operand.kind = "opcode.reg" -> RegisterCase(opcode % 8)
                      [] operand.kind = "implicit.reg" -> 0
<1>1. /\ decoding /\ operand.kind \in {"modrm.reg", "opcode.reg", "implicit.reg"}
      /\ Bind(Register(operand.width, index)) /\ ~rmInMemory
  BY DEF BindRegister, rmInMemory
<1>2. DecoderInv'
  BY BindRegisterKeeps DEF AgreeInv
<1>3. /\ stage = "operands" /\ Len(operands) + 1 \in 1 .. Len(Encoded)
      /\ operand = Encoded[Len(operands) + 1]
      /\ operand.kind = "modrm.reg" => ReadsModRm
  BY <1>1, NextOperand
<1>4. Register(operand.width, index) = IsaOperand(Len(operands) + 1)
  <2>1. CASE operand.kind = "modrm.reg"
    <3>1. IsaModRm = modrm /\ RegField(modrm) \in 0 .. 7
      BY <1>3, <2>1, ModRmByte DEF IsaModRm
    <3>2. index = RegField(modrm)
      BY <2>1, <3>1, RegisterCaseIs
    <3> QED BY <1>3, <2>1, <3>1, <3>2 DEF IsaOperand, decodeOperand
  <2>2. CASE operand.kind = "opcode.reg"
    <3>1. chosen \in candidates /\ opcode = LastByte(node)
      BY <1>3 DEF AgreeInv, FormChosen, BytesKept, AtLeaf
    <3>2. chosen \in Expanded /\ chosen.opcode = node
      BY <3>1 DEF candidates, Candidates
    <3>3. Len(operands) + 1 \in DOMAIN chosen.spec.operands
      BY <1>3, OperandsRead DEF Encoded
    <3>4. opcode % 8 = chosen.lowBits /\ chosen.lowBits \in 0 .. 7
      BY <1>3, <2>2, <3>1, <3>2, <3>3, ExpandedOpcode DEF Encoded, Reg3
    <3>5. index = chosen.lowBits
      BY <2>2, <3>4, RegisterCaseIs
    <3> QED BY <1>3, <2>2, <3>5 DEF IsaOperand, decodeOperand
  <2>3. CASE operand.kind = "implicit.reg"
    BY <1>3, <2>3 DEF IsaOperand, decodeOperand
  <2> QED BY <1>1, <2>1, <2>2, <2>3
<1>5. pendingRead[2] = EncodedBytes(operand) /\ pendingRead[2] \in Nat
  BY <1>1, PlainRead
<1>6. operand.kind # "modrm.rm"
  BY <1>1
<1> HIDE DEF index
<1> QED BY <1>1, <1>2, <1>4, <1>5, <1>6, BoundAlike

\* The address is a register.
LEMMA RegisterAddress ==
    ASSUME AgreeInv, decoding, operand.kind = "modrm.rm", ~rmInMemory
    PROVE  /\ IsaRm.kind = "reg" /\ IsaRm.index = RmField(modrm)
           /\ reader = IsaStart /\ reader = NextByte + 1 /\ ReadsModRm
           /\ Mod(modrm) = 3 /\ modrm = ByteAt(code, NextByte)
<1>1. stage = "operands" /\ AddressPending /\ ReadsModRm
  BY NextOperand
<1>2. Mod(modrm) = 3
  BY DEF rmInMemory
<1>3. modrm = ByteAt(code, NextByte) /\ NextByte \in Nat
  BY <1>1, ModRmByte, OperandsRead
<1>4. IsaRm = decodeModRmAddressing(code, NextByte)
  BY <1>1 DEF IsaRm
<1>5. IsaRm.kind = "reg" /\ IsaRm.index = RmField(modrm) /\ IsaRm.length = 1
  BY <1>2, <1>3, <1>4, AddressOf
<1>6. reader = NextByte + 1
  <2>1. /\ reader = NextByte + 1 + (IF sib = NoByte THEN 0 ELSE 1)
        /\ sib # NoByte => HasSib(modrm)
    BY <1>1 DEF AgreeInv, OperandsBound
  <2>2. sib = NoByte
    BY <1>2, <2>1 DEF HasSib
  <2> QED BY <1>3, <2>1, <2>2
<1>7. IsaStart = NextByte + 1
  BY <1>1, <1>5 DEF IsaStart
<1> QED BY <1>1, <1>2, <1>3, <1>5, <1>6, <1>7

LEMMA BindRegisterRmAlike ==
    ASSUME AgreeInv, BindRegisterRm PROVE AgreeInv'
<1> DEFINE k == Len(operands) + 1
<1>1. decoding /\ operand.kind = "modrm.rm" /\ ~rmInMemory
  BY DEF BindRegisterRm
<1>2. /\ stage = "operands" /\ k \in 1 .. Len(Encoded)
      /\ operand = Encoded[k] /\ operand \in OperandSpecs
  BY <1>1, NextOperand
<1>3. /\ IsaRm.kind = "reg" /\ IsaRm.index = RmField(modrm)
      /\ reader = IsaStart /\ reader = NextByte + 1 /\ ReadsModRm
      /\ Mod(modrm) = 3 /\ modrm = ByteAt(code, NextByte)
  BY <1>1, RegisterAddress
<1>4. CASE operand.memoryOnly
  <2>1. Exit(Unsupported(0))
    BY <1>4 DEF BindRegisterRm
  <2>2. NextByte \in Nat /\ Readable(code, NextByte + 1)
    BY <1>2, <1>3, OperandsRead
  <2>3. rm32ModRmByteLengthAt(code, NextByte) = 1
    <3>1. ~HasSib(modrm)
      BY <1>3 DEF HasSib
    <3>2. decodeModRmAddressing(code, NextByte).length = 1
      BY <1>3, <2>2, AddressOf
    <3> QED BY <1>3, <2>2, <3>1, <3>2, AddressBytes
  <2>4. IsaResult = decodeCandidate(code, chosen, IsaModRm, IsaRm, NextByte + 1)
    BY <1>2, <1>3, <2>2, <2>3, IsaAddressed
  <2>5. k \in DOMAIN chosen.spec.operands /\ chosen.spec.operands[k].memoryOnly
    BY <1>2, <1>4, OperandsRead DEF Encoded
  <2>6. IsaResult = Unsupported(NextByte + 1)
    BY <1>3, <2>4, <2>5 DEF decodeCandidate
  <2> QED BY <2>1, <2>6, RefusedAlike
<1>5. CASE ~operand.memoryOnly
  <2>1. Bind(Register(operand.width, RegisterCase(RmField(modrm))))
    BY <1>5 DEF BindRegisterRm
  <2>2. DecoderInv'
    BY BindRegisterRmKeeps DEF AgreeInv
  <2>3. RegisterCase(RmField(modrm)) = RmField(modrm)
    BY <1>2, <1>3, ModRmByte, RegisterCaseIs
  <2>4. Register(operand.width, RegisterCase(RmField(modrm))) = IsaOperand(k)
    BY <1>1, <1>2, <1>3, <2>3 DEF IsaOperand, decodeOperand
  <2>5. pendingRead[2] = 0
    BY <1>1, <1>2, PlainRead, OperandBytes
  <2>6. reader + pendingRead[2] = IsaStart
    BY <1>2, <1>3, <2>5, OperandsRead
  <2>7. pendingRead[2] \in Nat
    BY <2>5
  <2> QED BY <1>1, <1>5, <2>1, <2>2, <2>4, <2>6, <2>7, BoundAlike
<1> QED BY <1>4, <1>5

LEMMA ReadSibAlike ==
    ASSUME AgreeInv, ReadSib PROVE AgreeInv'
<1>1. /\ decoding /\ needsSib /\ rmInMemory /\ stage = "operands" /\ stage' = "operands"
      /\ sib' = ByteAt(code, reader) /\ reader' = reader + 1
      /\ UNCHANGED <<code, opcodeOffset, mode, node, byte, opcode, modrm, chosen, operands, result>>
  BY DEF ReadSib, needsSib, decoding
<1>2. DecoderInv'
  BY ReadSibKeeps DEF AgreeInv
<1>3. /\ PrefixesRead' /\ PathRead' /\ BytesKept' /\ FormChosen' /\ Alike'
      /\ NextByte' = NextByte /\ Encoded' = Encoded /\ IsaStart' = IsaStart /\ IsaRm' = IsaRm
      /\ ReadsModRm' = ReadsModRm
      /\ \A i : IsaOperand(i)' = IsaOperand(i)
  BY <1>1, OperandsKept
<1>4. /\ AddressPending /\ HasSib(modrm) /\ sib = NoByte /\ ReadsModRm
      /\ reader = NextByte + 1 + (IF sib = NoByte THEN 0 ELSE 1)
  BY <1>1, MemoryOperand
<1>5. NextByte \in Nat /\ reader = NextByte + 1 /\ reader' = NextByte + 2
  <2>1. NextByte \in Nat
    BY <1>1, OperandsRead
  <2> QED BY <1>1, <1>4, <2>1
<1>6. sib' # NoByte /\ sib' = ByteAt(code', NextByte' + 1)
  <2>1. reader' <= Len(code)
    <3>1. touched' = reader' /\ Readable(code, touched')
      BY <1>1, <1>2 DEF DecoderInv, ReadSoFar, ReadsStayInside
    <3> QED BY <3>1 DEF Readable
  <2>2. code \in Seq(0 .. 255)
    BY DEF AgreeInv, DecoderInv, DecoderTyped
  <2>3. code[reader + 1] \in 0 .. 255
    <3> DEFINE S == 0 .. 255
    <3>1. code \in Seq(S)
      BY <2>2
    <3> HIDE DEF S
    <3>2. code[reader + 1] \in S
      BY <1>1, <1>5, <2>1, <3>1
    <3> QED BY <3>2 DEF S
  <2>4. sib' \in 0 .. 255
    BY <1>1, <2>3 DEF ByteAt
  <2> QED BY <1>1, <1>3, <1>5, <2>4 DEF NoByte
<1>7. reader' = NextByte' + 1 + (IF sib' = NoByte THEN 0 ELSE 1)
  BY <1>3, <1>5, <1>6
<1>8. reader' >= IF ReadsModRm THEN NextByte + 1 ELSE NextByte
  BY <1>4, <1>5
<1>9. AddressPending'
  BY <1>1, <1>3, <1>4 DEF AddressPending
<1>10. /\ Len(operands) <= Len(Encoded)
       /\ \A i \in 1 .. Len(operands) : operands[i] = IsaOperand(i)
  BY <1>1 DEF AgreeInv, OperandsBound
<1>11. HasSib(modrm') /\ operands' = operands
  BY <1>1, <1>4
<1>12. OperandsBound'
  BY <1>3, <1>6, <1>7, <1>8, <1>9, <1>10, <1>11 DEF OperandsBound
<1> QED BY <1>2, <1>3, <1>12 DEF AgreeInv

\* The address in memory: the sum of what its bytes name.
LEMMA BindMemoryAlike ==
    ASSUME AgreeInv, BindMemory PROVE AgreeInv'
<1> DEFINE k == Len(operands) + 1
           mod == Mod(modrm)
           noBase == mod = 0 /\ baseField = 5
           indexField == (sib \div 8) % 8
           noIndex == ~HasSib(modrm) \/ indexField = 4
           index == IF noIndex THEN NoReg ELSE indexField
           base == IF noBase THEN NoReg ELSE baseField
           scale == IF HasSib(modrm) THEN 2 ^ (sib \div 64) ELSE 1
           disp == Displacement(reader, displacementWidth)
           width == displacementWidth \div 8
           binding == [kind |-> "mem", width |-> operand.width,
                       base |-> IF noBase THEN NoReg ELSE RegisterCase(baseField),
                       index |-> IF noIndex THEN NoReg ELSE RegisterCase(indexField),
                       scale |-> IF noIndex THEN 1 ELSE 2 ^ (sib \div 64),
                       disp |-> disp]
<1>1. decoding /\ rmInMemory /\ ~needsSib /\ Bind(binding)
  BY DEF BindMemory
<1>2. DecoderInv'
  BY BindBytesKeeps DEF AgreeInv
<1>3. /\ stage = "operands" /\ k \in 1 .. Len(Encoded) /\ operand = Encoded[k]
      /\ operand.kind = "modrm.rm"
  BY <1>1, NextOperand DEF rmInMemory
<1>4. /\ ReadsModRm /\ IsaRm = decodeModRmAddressing(code, NextByte)
      /\ modrm = ByteAt(code, NextByte) /\ mod # 3
      /\ baseField = BaseAt(code, NextByte)
      /\ reader = NextByte + (IF HasSib(modrm) THEN 2 ELSE 1)
      /\ HasSib(modrm) => sib = ByteAt(code, NextByte + 1)
  <2>1. HasSib(modrm) => sib = ByteAt(code, NextByte + 1)
    BY <1>1, <1>3, MemoryOperand DEF AgreeInv, OperandsBound
  <2> QED BY <1>1, <2>1, MemoryOperand
<1>5. NextByte \in Nat /\ Len(code) \in Nat /\ Readable(code, reader) /\ code \in Seq(0 .. 255)
      /\ RmField(modrm) \in 0 .. 7
  BY <1>3, <1>4, OperandsRead, ModRmByte DEF AgreeInv, DecoderInv, DecoderTyped
<1>6. HasSib(modrm) => sib \in 0 .. 255
  <2> SUFFICES ASSUME HasSib(modrm) PROVE sib \in 0 .. 255
    OBVIOUS
  <2> DEFINE S == 0 .. 255
  <2>1. code \in Seq(S) /\ NextByte + 2 <= Len(code)
    BY <1>4, <1>5 DEF Readable
  <2>2. sib = code[NextByte + 2]
    BY <1>4, <1>5 DEF ByteAt
  <2> HIDE DEF S
  <2>3. sib \in S
    BY <1>5, <2>1, <2>2
  <2> QED BY <2>3 DEF S
<1>7. baseField \in 0 .. 7
  <2>1. CASE HasSib(modrm)
    <3>1. sib % 8 \in 0 .. 7
      BY <1>6, <2>1
    <3> QED BY <2>1, <3>1 DEF baseField
  <2>2. CASE ~HasSib(modrm)
    BY <1>5, <2>2 DEF baseField
  <2> QED BY <2>1, <2>2
<1>8. HasSib(modrm) => indexField \in 0 .. 7
  BY <1>6
<1>9. binding = Memory(operand.width, MemoryRm(base, index, scale, disp, 0))
  <2>1. (IF noBase THEN NoReg ELSE RegisterCase(baseField)) = base
    BY <1>7, RegisterCaseIs
  <2>2. (IF noIndex THEN NoReg ELSE RegisterCase(indexField)) = index
    BY <1>8, RegisterCaseIs
  <2>3. (IF noIndex THEN 1 ELSE 2 ^ (sib \div 64)) = IF index = NoReg THEN 1 ELSE scale
    BY <1>8 DEF NoReg
  <2> HIDE DEF noBase, noIndex, indexField, base, index, scale, disp
  <2> QED BY <2>1, <2>2, <2>3 DEF Memory, MemoryRm
<1>10. IsaRm.kind = "mem" /\ Memory(operand.width, IsaRm)
                             = Memory(operand.width, MemoryRm(base, index, scale, disp, 0))
  <2> DEFINE at == NextByte
             sibAt == ByteAt(code, at + 1)
             dispAt == IF HasSib(modrm) THEN at + 2 ELSE at + 1
             isaIndex == IF HasSib(modrm) /\ (sibAt \div 8) % 8 # 4
                         THEN (sibAt \div 8) % 8 ELSE NoReg
             isaBase == IF mod = 0 /\ BaseAt(code, at) = 5 THEN NoReg ELSE BaseAt(code, at)
             isaScale == IF HasSib(modrm) THEN 2 ^ (sibAt \div 64) ELSE 1
             isaWidth == DisplacementWidth(mod, BaseAt(code, at))
             isaDisp == Displacement(dispAt, isaWidth)
             isaLength == dispAt - at + isaWidth \div 8
  <2>1. IsaRm = MemoryRm(isaBase, isaIndex, isaScale, isaDisp, isaLength)
    BY <1>4 DEF decodeModRmAddressing, BaseAt
  <2>2. isaIndex = index /\ isaBase = base /\ isaScale = scale
    BY <1>4
  <2>3. dispAt = reader /\ isaWidth = displacementWidth
    BY <1>4, <1>5 DEF displacementWidth
  <2>4. isaDisp = disp
    BY <2>3
  <2> HIDE DEF isaIndex, isaBase, isaScale, isaDisp, isaLength, index, base, scale, disp
  <2> QED BY <2>1, <2>2, <2>4 DEF Memory, MemoryRm
<1>11. binding = IsaOperand(k)
  <2> HIDE DEF binding, base, index, scale, disp
  <2> QED BY <1>3, <1>9, <1>10 DEF IsaOperand, decodeOperand
<1>12. pendingRead[2] = width
  <2>1. pendingRead = <<reader, width>>
    BY <1>1, <1>3 DEF pendingRead, operandRead, decoding
  <2> QED BY <2>1
<1>13. width \in Nat /\ IsaStart = reader + width
  <2>1. IsaRm.length = (IF HasSib(modrm) THEN 2 ELSE 1) + width
    BY <1>4, <1>5, AddressOf DEF displacementWidth
  <2>2. width \in Nat
    BY DisplacementBytes
  <2> HIDE DEF width
  <2> QED BY <1>4, <1>5, <2>1, <2>2 DEF IsaStart
<1>14. pendingRead[2] \in Nat /\ reader + pendingRead[2] = IsaStart
  BY <1>12, <1>13
<1> HIDE DEF binding
<1> QED BY <1>1, <1>2, <1>3, <1>10, <1>11, <1>14, BoundAlike

\* The bytes of an immediate or a relative target begin where the reader is.
LEMMA BytesBegin ==
    ASSUME AgreeInv, decoding, operand.kind \in {"imm", "rel"}, operand \in OperandSpecs
    PROVE  reader = OperandAt(Encoded, IsaStart, Len(operands) + 1)
<1> DEFINE k == Len(operands) + 1
<1>1. stage = "operands" /\ k \in 1 .. Len(Encoded) /\ operand = Encoded[k]
  BY NextOperand
<1>2. ~AddressPending
  <2>1. SUFFICES ASSUME AddressPending PROVE FALSE
    OBVIOUS
  <2>2. \A j \in 1 .. k : EncodedBytes(Encoded[j]) = 0
    BY <1>1, <2>1, PendingAddress
  <2>3. k \in 1 .. k
    BY <1>1
  <2>4. EncodedBytes(operand) = 0
    BY <1>1, <2>2, <2>3
  <2> QED BY <2>4 DEF EncodedBytes, OperandSpecs, Widths
<1> QED BY <1>1, <1>2 DEF AgreeInv, OperandsBound

LEMMA BindBytesAlike ==
    ASSUME AgreeInv, BindImmediate \/ BindRelative PROVE AgreeInv'
<1> DEFINE k == Len(operands) + 1
           binding == IF operand.kind = "imm" THEN ImmediateBytes(operand, reader)
                      ELSE Relative(operand, reader)
<1>1. decoding /\ operand.kind \in {"imm", "rel"} /\ Bind(binding) /\ ~rmInMemory
  BY DEF BindImmediate, BindRelative, rmInMemory
<1>2. DecoderInv'
  BY BindBytesKeeps DEF AgreeInv
<1>3. operand = Encoded[k] /\ operand \in OperandSpecs
  BY <1>1, NextOperand
<1>4. reader = OperandAt(Encoded, IsaStart, k)
  BY <1>1, <1>3, BytesBegin
<1>5. binding = IsaOperand(k)
  BY <1>1, <1>3, <1>4 DEF IsaOperand, decodeOperand
<1>6. pendingRead[2] = EncodedBytes(operand) /\ pendingRead[2] \in Nat
  BY <1>1, PlainRead
<1>7. operand.kind # "modrm.rm"
  BY <1>1
<1> HIDE DEF binding
<1> QED BY <1>1, <1>2, <1>5, <1>6, <1>7, BoundAlike

\* Every operand is bound: the ISA decoder has the same instruction.
LEMMA CompleteAlike ==
    ASSUME AgreeInv, Complete PROVE AgreeInv'
<1> DEFINE how == [kind |-> "ok", spec |-> chosen.spec, length |-> reader, operands |-> operands]
           L == Len(Encoded)
<1>1. stage = "operands" /\ ~(Len(operands) < L) /\ Exit(how)
  BY DEF Complete, operandsLeft, Encoded
<1>2. /\ L \in Nat /\ Len(operands) \in Nat /\ Len(operands) <= L
      /\ Encoded \in Seq(OperandSpecs) /\ Readable(code, reader)
  BY <1>1, OperandsRead
<1>3. Len(operands) = L
  BY <1>1, <1>2
<1>4. ~AddressPending
  <2>1. \A i \in L + 1 .. L : FALSE
    BY <1>2
  <2> QED BY <1>3, <2>1 DEF AddressPending
<1>5. reader = IsaLength /\ \A i \in 1 .. L : operands[i] = IsaOperand(i)
  BY <1>1, <1>3, <1>4 DEF AgreeInv, OperandsBound, IsaLength
<1>6. operands = [i \in DOMAIN Encoded |-> IsaOperand(i)]
  <2>1. operands \in Seq(ToSet(operands))
    BY DEF AgreeInv, DecoderInv, DecoderTyped, Sequence
  <2>2. operands = [i \in 1 .. L |-> operands[i]]
    BY <1>3, <2>1
  <2>3. DOMAIN Encoded = 1 .. L
    BY <1>2
  <2> HIDE DEF L
  <2> QED BY <1>5, <2>2, <2>3
<1>7. IsaResult = how
  BY <1>1, <1>2, <1>4, <1>5, <1>6, IsaBehindOperands
<1>8. Agreed(how)
  BY <1>7 DEF Agreed
<1>9. DecoderInv'
  BY CompleteKeeps DEF AgreeInv
<1> HIDE DEF how
<1> QED BY <1>1, <1>8, <1>9, ExitAlike

-----------------------------------------------------------------------------
(* The two decoders.                                                        *)

LEMMA AgreeInit ==
    Init => AgreeInv
<1> SUFFICES ASSUME Init PROVE AgreeInv
  OBVIOUS
<1>1. DecoderInv
  BY DecoderInit
<1>2. PrefixesRead
  BY DEF Init, PrefixesRead
<1>3. PathRead
  <2>1. Len(node) = 0 /\ node = <<>> /\ opcodeOffset = 0 /\ code \in Seq(0 .. 255)
    BY <1>1 DEF Init, DecoderInv, DecoderTyped
  <2>2. SubSeq(code, opcodeOffset + 1, opcodeOffset + Len(node)) = <<>>
    <3> DEFINE S == 0 .. 255
    <3>1. code \in Seq(S)
      BY <2>1
    <3> HIDE DEF S
    <3> QED BY <2>1, <3>1
  <2>3. node \in Nodes \ Leaves
    BY <2>1, LeavesNotEmpty DEF Nodes
  <2>4. \A n \in 1 .. Len(node) - 1 : FALSE
    BY <2>1
  <2>5. stage = "opcode"
    BY DEF Init
  <2> QED BY <2>1, <2>2, <2>3, <2>4, <2>5 DEF PathRead, OpcodeBytes, AtLeaf
<1>4. BytesKept /\ FormChosen /\ OperandsBound /\ Alike
  BY DEF Init, BytesKept, FormChosen, OperandsBound, Alike, DecodersAgree, RefusalsAgree, AtLeaf
<1> QED BY <1>1, <1>2, <1>3, <1>4 DEF AgreeInv

LEMMA AgreeStutter ==
    ASSUME AgreeInv, UNCHANGED vars PROVE AgreeInv'
<1>1. UNCHANGED <<code, stage, opcodeOffset, mode, node, byte, opcode, modrm, sib, chosen, reader,
                  operands, touched, result>>
  BY DEF vars
<1>2. DecoderInv'
  BY DecoderStep DEF AgreeInv
<1>3. candidates' = candidates /\ NextByte' = NextByte /\ IsaResult' = IsaResult
  BY <1>1 DEF candidates, NextByte, IsaResult
<1>4. PrefixesRead' /\ PathRead' /\ BytesKept'
  BY <1>1, <1>3 DEF AgreeInv, PrefixesRead, PathRead, OpcodeBytes, BytesKept
<1>5. Alike'
  BY <1>1, <1>3 DEF AgreeInv, Alike, DecodersAgree, RefusalsAgree, FaultAgrees
<1>6. CASE stage = "operands"
  <2>1. /\ FormChosen'
        /\ NextByte' = NextByte /\ Encoded' = Encoded /\ IsaStart' = IsaStart /\ IsaRm' = IsaRm
        /\ ReadsModRm' = ReadsModRm
        /\ \A i : IsaOperand(i)' = IsaOperand(i)
    BY <1>1, <1>6, OperandsKept
  <2>2. AddressPending' <=> AddressPending
    BY <1>1, <2>1 DEF AddressPending
  <2>3. OperandsBound'
    BY <1>1, <1>6, <2>1, <2>2 DEF AgreeInv, OperandsBound
  <2> QED BY <1>2, <1>4, <1>5, <2>1, <2>3 DEF AgreeInv
<1>7. CASE stage # "operands"
  BY <1>1, <1>2, <1>4, <1>5, <1>7 DEF AgreeInv, FormChosen, OperandsBound
<1> QED BY <1>6, <1>7

LEMMA AgreeStep ==
    AgreeInv /\ FormsDispatchable /\ [Next]_vars => AgreeInv'
<1> SUFFICES ASSUME AgreeInv, FormsDispatchable, [Next]_vars PROVE AgreeInv'
  OBVIOUS
<1>1. CASE DecodeFault BY <1>1, DecodeFaultAlike
<1>2. CASE LoadOpcodeByte BY <1>2, LoadOpcodeByteAlike
<1>3. CASE UnsupportedOpcode BY <1>3, UnsupportedOpcodeAlike
<1>4. CASE PrefixCase BY <1>4, PrefixCaseAlike
<1>5. CASE OpcodeNode BY <1>5, OpcodeNodeAlike
<1>6. CASE NoHandler BY <1>6, NoHandlerAlike
<1>7. CASE NoModRmHandler BY <1>7, NoModRmHandlerAlike
<1>8. CASE ModRmHandler BY <1>8, ModRmHandlerAlike
<1>9. CASE ReadModRm BY <1>9, ReadModRmAlike
<1>10. CASE ModRmDispatch BY <1>10, ModRmDispatchAlike
<1>11. CASE BindRegister BY <1>11, BindRegisterAlike
<1>12. CASE BindRegisterRm BY <1>12, BindRegisterRmAlike
<1>13. CASE ReadSib BY <1>13, ReadSibAlike
<1>14. CASE BindMemory BY <1>14, BindMemoryAlike
<1>15. CASE BindImmediate \/ BindRelative BY <1>15, BindBytesAlike
<1>16. CASE Complete BY <1>16, CompleteAlike
<1>17. CASE UNCHANGED vars BY <1>17, AgreeStutter
<1> QED BY <1>1, <1>2, <1>3, <1>4, <1>5, <1>6, <1>7, <1>8, <1>9, <1>10, <1>11, <1>12, <1>13, <1>14,
           <1>15, <1>16, <1>17 DEF Next

\* The interpreter's switches and the ISA decoder accept the same bytes and
\* agree on form, length and operands, for every table whose forms the opcode
\* bytes, the operand size and ModRM.reg tell apart, and every memory.
THEOREM DecodersAlike == Spec /\ []FormsDispatchable => []DecodersAgree
<1>1. AgreeInv => DecodersAgree
  BY DEF AgreeInv, Alike
<1> QED BY AgreeInit, AgreeStep, <1>1, PTL DEF Spec

\* What one refuses the other refuses, and the addresses of their faults are
\* related as FaultAgrees says, under the same condition on the table.
THEOREM RefusalsAlike == Spec /\ []FormsDispatchable => []RefusalsAgree
<1>1. AgreeInv => RefusalsAgree
  BY DEF AgreeInv, Alike
<1> QED BY AgreeInit, AgreeStep, <1>1, PTL DEF Spec
=============================================================================
