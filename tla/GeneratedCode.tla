---------------------------- MODULE GeneratedCode ----------------------------
(***************************************************************************)
(* What the code generated from expressions computes, for both engines.    *)
(* The generator knows of each value how much of it is clean: a value of   *)
(* an operand width may carry anything above that width until something    *)
(* needs those bits to be right, and is masked only then.                  *)
(*                                                                         *)
(* An emitted value is what the machine has, with the width the generator  *)
(* believes it has: [v, width].  logicalWidth says how wide the value      *)
(* means to be; cleanWidth above which width it is zero (Dirty: nothing);  *)
(* constValue what it is, if that is known.                                *)
(***************************************************************************)
EXTENDS IrExpressions

Dirty   == 0
Unknown == -1

cleanValueWidth(w) == [logicalWidth |-> w, cleanWidth |-> w, constValue |-> Unknown]
untrackedValueWidth == cleanValueWidth(32)
dirtyValueWidth(w) ==
    IF w = 32 THEN cleanValueWidth(32) ELSE [cleanValueWidth(w) EXCEPT !.cleanWidth = Dirty]
smallestCleanWidth(v) == Min({w \in Widths : v < 2 ^ Bits(w)})
constValueWidth(v) == [cleanValueWidth(smallestCleanWidth(v)) EXCEPT !.constValue = v]

Wider(a, b) == IF a >= b THEN a ELSE b
IsClean(width) == width.cleanWidth # Dirty
valueWidthIsCleanForWidth(width, w) == IsClean(width) /\ width.cleanWidth <= w

\* The width a constant masks to, or 0.
maskWidthFromConstValue(v) ==
    LET exact == {w \in Widths : v = 2 ^ Bits(w) - 1} IN IF exact = {} THEN 0 ELSE Min(exact)
maskWidths(left, right) ==
    {maskWidthFromConstValue(x.constValue) : x \in {y \in {left, right} : y.constValue # Unknown}} \ {0}

byLogicalWidth(left, right) == dirtyValueWidth(Wider(left.logicalWidth, right.logicalWidth))

bitwiseResultValueWidth(operator, left, right) ==
    CASE operator = "and" /\ maskWidths(left, right) # {} ->
           cleanValueWidth(IF maskWidths(left, left) # {} THEN Min(maskWidths(left, left))
                           ELSE Min(maskWidths(right, right)))
      [] operator = "and" /\ maskWidths(left, right) = {} /\ (IsClean(left) \/ IsClean(right)) ->
           cleanValueWidth(Min({left.cleanWidth, right.cleanWidth} \ {Dirty}))
      [] operator # "and" /\ IsClean(left) /\ IsClean(right) ->
           cleanValueWidth(Wider(left.cleanWidth, right.cleanWidth))
      [] OTHER -> byLogicalWidth(left, right)

i32BinaryResultValueWidth(operator, left, right) ==
    CASE operator = "shr_u" -> untrackedValueWidth
      [] operator # "shr_u" /\ Unknown \notin {left.constValue, right.constValue} ->
           constValueWidth(Evaluate(operator, left.constValue, right.constValue))
      [] operator \in {"add", "sub"} /\ Unknown \in {left.constValue, right.constValue} ->
           byLogicalWidth(left, right)
      [] operator \in {"and", "or", "xor"} /\ Unknown \in {left.constValue, right.constValue} ->
           bitwiseResultValueWidth(operator, left, right)

-----------------------------------------------------------------------------
(* Emitted values.                                                          *)

Emitted(v, width) == [v |-> v, width |-> width]

\* Mutant: what is masked is believed, not the value.
MaskNothing(w, x) == IF w = 32 \/ valueWidthIsCleanForWidth(x.width, w) THEN x
                     ELSE Emitted(x.v, cleanValueWidth(w))

emitMaskValueToWidth(w, x) ==
    IF w = 32 \/ valueWidthIsCleanForWidth(x.width, w) THEN x
    ELSE Emitted(Masked(w, x.v),
                 [cleanValueWidth(w) EXCEPT !.constValue =
                    IF x.width.constValue = Unknown THEN Unknown ELSE Masked(w, x.width.constValue)])

emitCleanValueForFullUse(x) ==
    IF IsClean(x.width) THEN x ELSE emitMaskValueToWidth(x.width.logicalWidth, x)

\* What the user of a value asks for: it takes any high bits, it needs all of
\* them, or neither; and whether a narrow read extends the sign.
Plain == [insensitive |-> FALSE, full |-> FALSE, signed |-> FALSE]
Insensitive == [Plain EXCEPT !.insensitive = TRUE]
Full == [Plain EXCEPT !.full = TRUE]

emitSignExtendValueToWidth(w, v) == Emitted(SignExtend(w, v), cleanValueWidth(32))

\* A part of a register whose full value is in a local.
emitExtractRegAlias(v, w, options) ==
    CASE options.signed /\ w < 32 -> emitSignExtendValueToWidth(w, v)
      [] ~options.signed /\ options.insensitive /\ w < 32 -> Emitted(v, dirtyValueWidth(w))
      [] OTHER -> Emitted(Masked(w, v), cleanValueWidth(w))

emitGetImmediate(backend, n, w, options) ==
    CASE options.signed /\ w < 32 -> emitSignExtendValueToWidth(w, Wrap(n))
      [] ~options.signed /\ options.insensitive /\ w < 32 -> Emitted(Wrap(n), dirtyValueWidth(w))
      [] OTHER -> Emitted(Masked(w, Wrap(n)), IF backend = "jit" THEN constValueWidth(Masked(w, Wrap(n)))
                                              ELSE cleanValueWidth(w))

emitLoadGuest(backend, v, w, options) ==
    CASE options.signed /\ w < 32 -> emitSignExtendValueToWidth(w, v)
      [] ~options.signed /\ options.insensitive /\ w < 32 /\ backend = "interpreter" ->
           Emitted(Masked(w, v), dirtyValueWidth(w))
      [] OTHER -> Emitted(Masked(w, v), cleanValueWidth(w))

\* The interpreter computed an operand's address when it decoded it.
OperandAddress(backend, m, st) ==
    EffectiveAddress(IF backend = "jit" THEN m ELSE [m EXCEPT !.regs = m.committed], st)

\* parts: the storage's address, where that is a value.
StorageAddress(backend, m, st, parts) ==
    IF st.kind = "ea" THEN OperandAddress(backend, m, st) ELSE parts[1].v

emitGet(backend, m, source, parts, options) ==
    LET st == source[2]
        w  == source[3]
    IN  CASE st.kind = "reg" ->
               emitExtractRegAlias(m.regs[st.reg] \div LowBits(st), st.width, options)
          [] st.kind = "imm" -> emitGetImmediate(backend, st.value, w, options)
          [] OTHER -> emitLoadGuest(backend, m.mem[StorageAddress(backend, m, st, parts)], w, options)

\* An extension of a storage of its own width reads it with its sign.
ReadsSigned(e) == e[1] = "unary" /\ e[3][1] = "source" /\ e[3][3] = e[2]

EmittedParts(e) == IF ReadsSigned(e) THEN SubValues(e[3]) ELSE SubValues(e)
partOptions(e) ==
    CASE e[1] = "binary" -> IF e[2] \in {"add", "sub", "shr_u"} THEN Full ELSE Insensitive
      [] e[1] = "unary" -> Insensitive
      [] e[1] = "source" -> Full
      [] OTHER -> Plain

Holds(op, inputs) ==
    emitFlagProducerCondition(flagProducerConditionKind(op.producer, op.cc, op.known), op.width, inputs)

InputsEmitted(parts) ==
    [n \in {"left", "right", "result"} |-> IF n \in DOMAIN parts THEN parts[n].v ELSE 0]
OfCondition(holds) == Emitted(IF holds THEN 1 ELSE 0, cleanValueWidth(8))

emitValueUncached(backend, code, m, e, parts, options) ==
    CASE e[1] = "var" -> Emitted(m.vars[code.slotByVar[e[2]]], m.widths[e[2]])
      [] e[1] = "const" -> Emitted(e[2], constValueWidth(e[2]))
      [] e[1] = "nextEip" -> Emitted(Returned, untrackedValueWidth)
      [] e[1] = "source" \/ ReadsSigned(e) ->
           LET source == IF ReadsSigned(e) THEN e[3] ELSE e
           IN  emitGet(backend, m, source, parts,
                       [options EXCEPT !.signed = @ \/ source[4] \/ ReadsSigned(e)])
      [] e[1] = "address" -> Emitted(OperandAddress(backend, m, e[2]), untrackedValueWidth)
      [] e[1] = "condition" -> OfCondition(ConditionOf(e[2], m.word))
      [] e[1] = "producer" -> OfCondition(Holds(e[2], InputsEmitted(parts)))
      [] e[1] = "binary" ->
           Emitted(Evaluate(e[2], parts[1].v, parts[2].v),
                   i32BinaryResultValueWidth(e[2], parts[1].width, parts[2].width))
      [] e[1] = "unary" /\ ~ReadsSigned(e) -> emitSignExtendValueToWidth(e[2], parts[1].v)

RECURSIVE emitValue(_, _, _, _, _)
emitValue(backend, code, m, e, options) ==
    LET parts == [k \in DOMAIN EmittedParts(e) |->
                    emitValue(backend, code, m, EmittedParts(e)[k], partOptions(e))]
        x == emitValueUncached(backend, code, m, e, parts, options)
    IN  IF options.full THEN emitCleanValueForFullUse(x) ELSE x

-----------------------------------------------------------------------------
(* Operations.                                                              *)

\* A narrow write replaces its bits and trusts the value to have no others.
emitStoreRegAlias(m, st, x) ==
    LET value == emitMaskValueToWidth(st.width, x).v
        old   == m.regs[st.reg]
        kept  == old - LowBits(st) * Masked(st.width, old \div LowBits(st))
    IN  [m EXCEPT !.regs[st.reg] =
           IF IsFull(st) THEN emitCleanValueForFullUse(x).v
           ELSE Or(kept, Wrap(value * LowBits(st)))]

emitStoreMem(m, address, w, x) ==
    [m EXCEPT !.mem[address] =
       Insert(@, w, 1, IF w = 32 THEN emitCleanValueForFullUse(x).v ELSE x.v)]

\* The storage an operation reads or writes, if it is in memory.
AccessedStorages(op) ==
    {st \in (IF op.op = "set" THEN {op.target}
             ELSE IF op.op = "let32" /\ op.value[1] = "source" THEN {op.value[2]} ELSE {}) :
       InMemory(st)}

\* What an operation needs emitted; a load's address is asked for by itself.
EmittedOperands(op) ==
    Operands(op)
    @@ (IF op.op = "let32" /\ op.value[1] = "source" /\ op.value[2].kind = "mem"
        THEN [target |-> op.value[2].address] ELSE <<>>)
operandOptions(op, name) ==
    IF op.op = "flags.set" \/ name = "value" THEN Plain ELSE Full

EmittedAddress(backend, m, st, in) ==
    IF st.kind = "ea" THEN OperandAddress(backend, m, st) ELSE in.target.v

emitSet(backend, m, op, in) ==
    IF IsReg(op.target) THEN emitStoreRegAlias(m, op.target, in.value)
    ELSE emitStoreMem(m, EmittedAddress(backend, m, op.target, in), op.width, in.value)

\* After a materialized write the register's value is committed.
Commit(m, r) == [m EXCEPT !.committed[r] = m.regs[r]]

\* An operation, its accesses made and its operands emitted.
EmitWith(backend, code, m, op, in, last) ==
    CASE op.op = "let32" ->
           [m EXCEPT !.vars = (code.slotByVar[op.dst] :> in.value.v) @@ @,
                     !.widths = (op.dst :> in.value.width) @@ @]
      [] op.op = "set.if" /\ in.condition.v = 0 -> m
      [] op.op = "set" /\ op.materializes -> Commit(emitSet(backend, m, op, in), op.target.reg)
      [] op.op \in {"set", "set.if"} -> emitSet(backend, m, op, in)
      [] op.op = "flags.set" ->
           [m EXCEPT !.word =
              emitSetFlags(@, Descriptor(op.producer, op.width, InputsEmitted(in)), Flags)]
      [] op.op = "next" ->
           [(IF last THEN Exit(m, "next") ELSE m) EXCEPT !.committed = m.regs, !.entry = m.word]
      [] op.op = "jump" -> Exit(m, <<"jump", in.target.v>>)
      [] op.op = "conditionalJump" -> Exit(m, <<"branch", in.condition.v>>)
      [] op.op = "hostTrap" -> Exit(m, <<"trap", in.vector.v>>)

AfterAccesses(backend, m, op, in) ==
    FoldSet(LAMBDA st, n : Reach(n, EmittedAddress(backend, n, st, in)), m, AccessedStorages(op))

emitOperands(backend, code, m, op) ==
    [n \in DOMAIN EmittedOperands(op) |->
       emitValue(backend, code, m, EmittedOperands(op)[n], operandOptions(op, n))]

emitOp(backend, code, m, op, last) ==
    LET with(in) == EmitWith(backend, code, AfterAccesses(backend, m, op, in), op, in, last)
    IN  with(emitOperands(backend, code, m, op))

\* An instruction's code: its operations as expressions, and the slots of its
\* variables.
InstructionCode(ops) == [ops |-> ops, slotByVar |-> assignIrExprVarSlots(ops)]

RunInstruction(backend, m, code, last) ==
    FoldLeft(LAMBDA n, op : emitOp(backend, code, n, op, last),
             [m EXCEPT !.vars = <<>>, !.widths = <<>>, !.reached = {}], code.ops)

\* Every instruction through the generator, from a state of the machine.  A
\* fault of the JIT's code publishes the instruction's start, one of the
\* interpreter's what is in its locals.
RunGenerated(backend, block, start) ==
    FoldLeftDomain(LAMBDA m, i :
                     RunInstruction(backend, m, InstructionCode(buildIrExpressionBlock(backend, block[i])),
                                    i = Len(block)),
                   Machine(start, backend = "interpreter") @@ [widths |-> <<>>], block).seen
=============================================================================
