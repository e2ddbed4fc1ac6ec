-------------------------------- MODULE JitIr --------------------------------
(***************************************************************************)
(* The JIT's intermediate representation: the operations, the block the    *)
(* builder makes of decoded instructions (x86/isa/semantics through the IR *)
(* emitter), what each operation can do (effects and barriers), the        *)
(* validator, and what a block means - the states it publishes.            *)
(*                                                                         *)
(* An instruction is a sequence of operations; a block is a sequence of    *)
(* instructions, of which only the last may leave the block.  Operands are *)
(* resolved where the instruction is built: an operation names a storage,  *)
(* an access to a register, an immediate, or memory at an address.         *)
(***************************************************************************)
EXTENDS FlagModel, SequencesExt

CONSTANTS RegOrder      \* the registers a block names, in the order of reg32

Registers == ToSet(RegOrder)

-----------------------------------------------------------------------------
(* Value references and storages.                                           *)

Var(id) == <<"var", id>>
Const(n) == <<"const", Wrap(n)>>
NextEip == <<"nextEip">>

OffsetBits(offset) == IF offset = 0 THEN 0 ELSE ByteBits

\* How an instruction names a register: by a field of its bytes, in the form
\* that may also name memory (rm), or always the same one.
Alias(r, w, offset) == [kind |-> "reg", reg |-> r, width |-> w, offset |-> offset,
                        bound |-> "dynamic"]
Rm(st) == [st EXCEPT !.bound = "rm"]
Reg(r) == [Alias(r, 32, 0) EXCEPT !.bound = "fixed"]
Immediate(n) == [kind |-> "imm", value |-> n]
None == "none"
Ea(base, index, scale, disp) ==
    [kind |-> "ea", base |-> base, index |-> index, scale |-> scale, disp |-> disp]
Mem(ref) == [kind |-> "mem", address |-> ref]

IsReg(st) == st.kind = "reg"
IsFull(st) == IsReg(st) /\ st.width = 32
InMemory(st) == st.kind \in {"ea", "mem"}

-----------------------------------------------------------------------------
(* Operations.                                                              *)

Get(d, st, w)       == [op |-> "get", dst |-> d, source |-> st, width |-> w,
                        signed |-> FALSE, symbolic |-> FALSE]
GetSigned(d, st, w) == [Get(d, st, w) EXCEPT !.signed = TRUE]
SymbolicRead(d, r)  == [Get(d, Reg(r), 32) EXCEPT !.symbolic = TRUE]
Set(st, ref, w)     == [op |-> "set", target |-> st, value |-> ref, width |-> w,
                        materializes |-> FALSE]
MaterializeSet(r, ref) == [Set(Reg(r), ref, 32) EXCEPT !.materializes = TRUE]
SetIf(cond, st, ref, w) == [op |-> "set.if", condition |-> cond, target |-> st,
                            value |-> ref, width |-> w]
Address(d, st)      == [op |-> "address", dst |-> d, operand |-> st]
ValueConst(d, n)    == [op |-> "value.const", dst |-> d, value |-> n]
Binary(d, operator, a, b) == [op |-> "value.binary", dst |-> d, operator |-> operator,
                              a |-> a, b |-> b]
UnaryOp(d, operator, a) == [op |-> "value.unary", dst |-> d, operator |-> operator, a |-> a]
SetFlags(p, w, in)  == [op |-> "flags.set", producer |-> p, width |-> w, inputs |-> in]
AluCondition(d, cc) == [op |-> "aluFlags.condition", dst |-> d, cc |-> cc]
ProducerCondition(d, cc, p, w, in) ==
    [op |-> "flagProducer.condition", dst |-> d, cc |-> cc, producer |-> p, width |-> w,
     inputs |-> in]
NextOp              == [op |-> "next"]
Jump(ref)           == [op |-> "jump", target |-> ref]
ConditionalJump(cond, ref) == [op |-> "conditionalJump", condition |-> cond, taken |-> ref]
HostTrap(ref)       == [op |-> "hostTrap", vector |-> ref]

Terminators == {"next", "jump", "conditionalJump", "hostTrap"}
HasResult == {"get", "address", "value.const", "value.binary", "value.unary",
              "aluFlags.condition", "flagProducer.condition"}

StorageRefs(st) == IF st.kind = "mem" THEN {st.address} ELSE {}
InputRefs(op) == {op.inputs[n] : n \in DOMAIN op.inputs}

\* The references an operation reads (visitJitIrOpValueRefs).
ValueUses(op) ==
    CASE op.op = "get" -> StorageRefs(op.source)
      [] op.op = "set" -> StorageRefs(op.target) \cup {op.value}
      [] op.op = "set.if" -> StorageRefs(op.target) \cup {op.condition, op.value}
      [] op.op = "value.binary" -> {op.a, op.b}
      [] op.op = "value.unary" -> {op.a}
      [] op.op \in {"flags.set", "flagProducer.condition"} -> InputRefs(op)
      [] op.op = "jump" -> {op.target}
      [] op.op = "conditionalJump" -> {op.condition, op.taken}
      [] op.op = "hostTrap" -> {op.vector}
      [] OTHER -> {}

\* The variables read as a condition by set.if or an exit.
ConditionUses(ops) ==
    {ops[j].condition[2] : j \in {i \in DOMAIN ops : ops[i].op \in {"set.if", "conditionalJump"}}}

-----------------------------------------------------------------------------
(* Effects and barriers.                                                    *)

MayFault(op) ==
    \/ op.op = "get" /\ InMemory(op.source)
    \/ op.op = "set" /\ InMemory(op.target)

\* An exit after the instruction; next leaves only from the last one.
HasExit(op, last) ==
    \/ op.op \in {"jump", "conditionalJump", "hostTrap"}
    \/ op.op = "next" /\ last

WritesReg(op, r) == op.op \in {"set", "set.if"} /\ IsReg(op.target) /\ op.target.reg = r

\* The operations strictly between two locations <<instruction, operation>>.
Between(block, after, before) ==
    {at \in UNION {{i} \X DOMAIN block[i] : i \in after[1] .. before[1]} :
       /\ at[1] = after[1] => at[2] > after[2]
       /\ at[1] = before[1] => at[2] < before[2]}

ClobberedBetween(block, r, after, before) ==
    \E at \in Between(block, after, before) : WritesReg(block[at[1]][at[2]], r)

-----------------------------------------------------------------------------
(* The instructions, as their semantic templates emit them.                 *)

Inputs3(l, r, res) == [left |-> l, right |-> r, result |-> res]
Inputs2(l, res) == [left |-> l, result |-> res]
Inputs1(res) == [result |-> res]

AluOps == {"add", "sub", "xor", "and", "or"}
AluProducer(op) == IF op \in {"add", "sub"} THEN op ELSE "logic"
AluInputs(op, l, r, res) == IF op \in {"add", "sub"} THEN Inputs3(l, r, res) ELSE Inputs1(res)

\* get, get, compute, flags; the shared start of the two-operand instructions.
Compute(op, w, dst, src) ==
    <<Get(0, dst, w), Get(1, src, w), Binary(2, op, Var(0), Var(1)),
      SetFlags(AluProducer(op), w, AluInputs(op, Var(0), Var(1), Var(2)))>>

aluSemantic(op, w, dst, src) == Compute(op, w, dst, src) \o <<Set(dst, Var(2), w), NextOp>>
cmpSemantic(w, dst, src) == Append(Compute("sub", w, dst, src), NextOp)
testSemantic(w, dst, src) == Append(Compute("and", w, dst, src), NextOp)

unaryAluSemantic(op, w, dst) ==
    <<Get(0, dst, w)>>
    \o (CASE op = "inc" -> <<Binary(1, "add", Var(0), Const(1)),
                             SetFlags("inc", w, Inputs2(Var(0), Var(1)))>>
          [] op = "dec" -> <<Binary(1, "sub", Var(0), Const(1)),
                             SetFlags("dec", w, Inputs2(Var(0), Var(1)))>>
          [] op = "not" -> <<Binary(1, "xor", Var(0), Const(2 ^ Bits(w) - 1))>>
          [] op = "neg" -> <<Binary(1, "sub", Const(0), Var(0)),
                             SetFlags("sub", w, Inputs3(Const(0), Var(0), Var(1)))>>)
    \o <<Set(dst, Var(1), w), NextOp>>

movSemantic(w, dst, src) == <<Get(0, src, w), Set(dst, Var(0), w), NextOp>>
movzxSemantic(sw, w, dst, src) == <<Get(0, src, sw), Set(dst, Var(0), w), NextOp>>
movsxSemantic(sw, w, dst, src) == <<GetSigned(0, src, sw), Set(dst, Var(0), w), NextOp>>
cmovSemantic(cc, w, dst, src) ==
    <<Get(0, src, w), AluCondition(1, cc), SetIf(Var(1), dst, Var(0), w), NextOp>>
xchgSemantic(w, dst, src) ==
    <<Get(0, dst, w), Get(1, src, w), Set(dst, Var(1), w), Set(src, Var(0), w), NextOp>>
leaSemantic(w, dst, src) == <<Address(0, src), Set(dst, Var(0), w), NextOp>>

\* Mutant: esp is moved before the store that may fault.
push32MovedFirst(ref, id) ==
    <<Get(id, Reg("esp"), 32), Binary(id + 1, "sub", Var(id), Const(4)),
      Set(Reg("esp"), Var(id + 1), 32), Set(Mem(Var(id + 1)), ref, 32)>>

\* push32 and pop32 use three variables, from id on.
push32(ref, id) ==
    <<Get(id, Reg("esp"), 32), Binary(id + 1, "sub", Var(id), Const(4)),
      Set(Mem(Var(id + 1)), ref, 32), Set(Reg("esp"), Var(id + 1), 32)>>
pop32 ==
    <<Get(0, Reg("esp"), 32), Get(1, Mem(Var(0)), 32), Binary(2, "add", Var(0), Const(4)),
      Set(Reg("esp"), Var(2), 32)>>

pushSemantic(src) == <<Get(0, src, 32)>> \o push32(Var(0), 1) \o <<NextOp>>
popSemantic(dst) == pop32 \o <<Set(dst, Var(1), 32), NextOp>>
leaveSemantic ==
    <<Get(0, Reg("ebp"), 32), Get(1, Mem(Var(0)), 32), Binary(2, "add", Var(0), Const(4)),
      Set(Reg("esp"), Var(2), 32), Set(Reg("ebp"), Var(1), 32), NextOp>>
jmpSemantic(src) == <<Get(0, src, 32), Jump(Var(0))>>
callSemantic(src) == <<Get(0, src, 32)>> \o push32(NextEip, 1) \o <<Jump(Var(0))>>
retSemantic == Append(pop32, Jump(Var(1)))
retImmSemantic(n) ==
    pop32 \o <<Get(3, Immediate(n), 32), Get(4, Reg("esp"), 32),
               Binary(5, "add", Var(4), Var(3)), Set(Reg("esp"), Var(5), 32), Jump(Var(1))>>
jccSemantic(cc, n) ==
    <<AluCondition(0, cc), Get(1, Immediate(n), 32), ConditionalJump(Var(0), Var(1))>>
nopSemantic == <<NextOp>>
intSemantic(n) == <<Get(0, Immediate(n), 8), HostTrap(Var(0))>>

-----------------------------------------------------------------------------
(* Validation: one terminator, at the end; each variable assigned once and  *)
(* before its uses; the inputs of a flag operation are its producer's.      *)

InputsOf(op) ==
    IF op.op = "flags.set" THEN ProducerInputs[op.producer]
    ELSE LET kind == flagProducerConditionKind(op.producer, op.cc, DOMAIN op.inputs)
         IN  flagProducerConditionInputNames(kind)

validateInstruction(ops) ==
    /\ {j \in DOMAIN ops : ops[j].op \in Terminators} = {Len(ops)}
    /\ \A j \in DOMAIN ops :
         LET defined == {ops[k].dst : k \in {k \in 1 .. j - 1 : ops[k].op \in HasResult}}
         IN  /\ \A ref \in ValueUses(ops[j]) : ref[1] = "var" => ref[2] \in defined
             /\ ops[j].op \in HasResult => ops[j].dst \notin defined
             /\ ops[j].op \in {"flags.set", "flagProducer.condition"} =>
                  DOMAIN ops[j].inputs = InputsOf(ops[j])
             /\ ops[j].op = "get" /\ ops[j].signed => ops[j].width < 32

\* A condition is read as a condition, never as an ordinary value.
conditionsConsumed(ops) ==
    \A j \in DOMAIN ops : ops[j].op = "aluFlags.condition" =>
        \A k \in DOMAIN ops : Var(ops[j].dst) \in ValueUses(ops[k]) =>
            /\ ops[k].op \in {"set.if", "conditionalJump"}
            /\ Var(ops[j].dst) = ops[k].condition

validateJitIrBlock(block) ==
    \A i \in DOMAIN block : validateInstruction(block[i]) /\ conditionsConsumed(block[i])

-----------------------------------------------------------------------------
(* What a block does, and the machine it does it to: the registers and the  *)
(* flags word, their values when the instruction started, memory, the       *)
(* instruction's variables, the addresses it has reached, and what was      *)
(* published.  A fault publishes the instruction's start, or what the       *)
(* registers and flags are by then where they are changed in place (live).  *)

Machine(start, live) ==
    [regs |-> start.regs, committed |-> start.regs, word |-> start.word, entry |-> start.word,
     mem |-> start.mem, vars |-> <<>>, reached |-> {}, seen |-> <<>>, live |-> live]

Publish(m, what) == [m EXCEPT !.seen = Append(@, what)]
Exit(m, how) == Publish(m, <<how, m.regs, m.word, m.mem>>)
Fault(m, address) ==
    Publish(m, IF m.live THEN <<"fault", address, m.regs, m.word, m.mem>>
               ELSE <<"fault", address, m.committed, m.entry, m.mem>>)

\* An access may fault, unless the instruction has been at that address.
Reach(m, address) ==
    IF address \in m.reached THEN m ELSE [Fault(m, address) EXCEPT !.reached = @ \cup {address}]

Evaluate(operator, a, b) ==
    CASE operator = "add" -> Wrap(a + b)
      [] operator = "sub" -> Wrap(a - b)
      [] operator = "and" -> And(a, b)
      [] operator = "or"  -> Or(a, b)
      [] operator = "xor" -> Xor(a, b)
      [] operator = "shr_u" -> a \div 2 ^ b

SignExtend(w, v) ==
    LET low == Masked(w, v) IN IF low < SignMask(w) THEN low ELSE Wrap(low - 2 ^ Bits(w))

Returned == 2 ^ (DwordBits - 1) + 1      \* the nextEip of an instruction

RefValue(m, ref) ==
    CASE ref[1] = "var" -> m.vars[ref[2]] [] ref[1] = "const" -> ref[2] [] OTHER -> Returned

RegValue(m, r) == IF r = None THEN 0 ELSE m.regs[r]
EffectiveAddress(m, st) ==
    IF st.kind = "mem" THEN RefValue(m, st.address)
    ELSE Wrap(RegValue(m, st.base) + st.scale * RegValue(m, st.index) + st.disp)

LowBits(st) == 2 ^ OffsetBits(st.offset)
ReadStorage(m, st, w) ==
    CASE st.kind = "reg" -> Masked(st.width, m.regs[st.reg] \div LowBits(st))
      [] st.kind = "imm" -> Masked(w, Wrap(st.value))
      [] OTHER -> Masked(w, m.mem[EffectiveAddress(m, st)])

\* A narrow write keeps the other bits.
Insert(old, w, low, v) == old + low * (Masked(w, v) - Masked(w, old \div low))

WriteStorage(m, st, w, v) ==
    IF IsReg(st) THEN [m EXCEPT !.regs[st.reg] = Insert(@, st.width, LowBits(st), v)]
    ELSE [m EXCEPT !.mem[EffectiveAddress(m, st)] = Insert(@, w, 1, v)]

Assign(m, d, v) == [m EXCEPT !.vars = (d :> v) @@ @]
InputValues(m, op) == [n \in {"left", "right", "result"} |->
                         IF n \in DOMAIN op.inputs THEN RefValue(m, op.inputs[n]) ELSE 0]

Accessed(m, op) == IF op.op = "get" THEN EffectiveAddress(m, op.source) ELSE EffectiveAddress(m, op.target)

ExecuteOp(m0, op, last) ==
    LET m == IF MayFault(op) THEN Reach(m0, Accessed(m0, op)) ELSE m0
    IN  CASE op.op = "get" ->
               LET v == ReadStorage(m, op.source, op.width)
               IN  Assign(m, op.dst, IF op.signed THEN SignExtend(op.width, v) ELSE v)
          [] op.op = "set" ->
               LET after == WriteStorage(m, op.target, op.width, RefValue(m, op.value))
               IN  IF op.materializes
                   THEN [after EXCEPT !.committed[op.target.reg] = RefValue(m, op.value)]
                   ELSE after
          [] op.op = "set.if" ->
               IF RefValue(m, op.condition) = 0 THEN m
               ELSE WriteStorage(m, op.target, op.width, RefValue(m, op.value))
          [] op.op = "address" -> Assign(m, op.dst, EffectiveAddress(m, op.operand))
          [] op.op = "value.const" -> Assign(m, op.dst, op.value)
          [] op.op = "value.binary" ->
               Assign(m, op.dst, Evaluate(op.operator, RefValue(m, op.a), RefValue(m, op.b)))
          [] op.op = "value.unary" -> Assign(m, op.dst, SignExtend(op.operator, RefValue(m, op.a)))
          [] op.op = "flags.set" ->
               [m EXCEPT !.word = emitSetFlags(@, Descriptor(op.producer, op.width,
                                                             InputValues(m, op)), Flags)]
          [] op.op = "aluFlags.condition" ->
               Assign(m, op.dst, IF ConditionOf(op.cc, m.word) THEN 1 ELSE 0)
          [] op.op = "flagProducer.condition" ->
               LET kind == flagProducerConditionKind(op.producer, op.cc, DOMAIN op.inputs)
                   holds == emitFlagProducerCondition(kind, op.width, InputValues(m, op))
               IN  Assign(m, op.dst, IF holds THEN 1 ELSE 0)
          [] op.op = "next" ->
               [(IF last THEN Exit(m, "next") ELSE m) EXCEPT !.committed = m.regs, !.entry = m.word]
          [] op.op = "jump" -> Exit(m, <<"jump", RefValue(m, op.target)>>)
          [] op.op = "conditionalJump" -> Exit(m, <<"branch", RefValue(m, op.condition)>>)
          [] op.op = "hostTrap" -> Exit(m, <<"trap", RefValue(m, op.vector)>>)

Run(block, machine) ==
    LET instruction(m, i) ==
            FoldLeft(LAMBDA n, op : ExecuteOp(n, op, i = Len(block)),
                     [m EXCEPT !.vars = <<>>, !.reached = {}], block[i])
    IN  FoldLeftDomain(instruction, machine, block).seen

\* As the JIT's blocks do it, and as the direct backend does.
Execute(block, start)   == Run(block, Machine(start, FALSE))
RunDirect(block, start) == Run(block, Machine(start, TRUE))
=============================================================================
