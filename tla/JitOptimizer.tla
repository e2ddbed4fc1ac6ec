---------------------------- MODULE JitOptimizer ----------------------------
(***************************************************************************)
(* The optimization passes over a JIT block, each an operator from blocks  *)
(* to blocks, with the analyses they rest on: symbolic values of registers *)
(* and variables, the flags that reach a condition, flag liveness.         *)
(*                                                                         *)
(* A value is <<"const", n>>, <<"reg", r>> (what register r physically     *)
(* holds where the value is emitted), <<"binary", operator, a, b>> or      *)
(* <<"unary", width, a>>; NoValue stands for undefined.  A tracker is the  *)
(* sequence of the <<variable, value>> pairs an instruction has recorded.  *)
(* What is known of a register is a prefix <<width, value>>, or NoPrefix.  *)
(***************************************************************************)
EXTENDS JitIr

NoValue  == <<>>
NoPrefix == <<>>
NothingKnown == [r \in Registers |-> NoPrefix]
Symbolic(r) == <<"reg", r>>

RECURSIVE SymbolicRegs(_)
SymbolicRegs(v) ==
    IF v = NoValue THEN {}
    ELSE CASE v[1] = "const" -> {}
           [] v[1] = "reg" -> {v[2]}
           [] v[1] = "binary" -> SymbolicRegs(v[3]) \cup SymbolicRegs(v[4])
           [] v[1] = "unary" -> SymbolicRegs(v[3])

ExtractAccess(v, w, offset) ==
    CASE w = 32 /\ offset = 0 -> v
      [] w < 32 /\ v[1] = "const" -> Const(Masked(w, v[2] \div 2 ^ OffsetBits(offset)))
      [] OTHER ->
           LET shifted == IF offset = 0 THEN v
                          ELSE <<"binary", "shr_u", v, Const(OffsetBits(offset))>>
           IN  <<"binary", "and", shifted, Const(2 ^ Bits(w) - 1)>>

\* A prefix answers the accesses that lie inside it.
ReadAccess(known, access) ==
    LET prefix == known[access.reg]
    IN  IF prefix # NoPrefix /\ OffsetBits(access.offset) + Bits(access.width) <= Bits(prefix[1])
        THEN ExtractAccess(prefix[2], access.width, access.offset)
        ELSE NoValue

WriteAccess(known, access, v) ==
    [known EXCEPT ![access.reg] = IF access.offset = 0 /\ v # NoValue THEN <<access.width, v>>
                                  ELSE NoPrefix]

FullValue(known, r) ==
    IF known[r] # NoPrefix /\ known[r][1] = 32 THEN known[r][2] ELSE NoValue
FullOrSymbolic(known, r) ==
    IF FullValue(known, r) = NoValue THEN Symbolic(r) ELSE FullValue(known, r)

StorageValue(known, st, w, signed) ==
    LET unsigned ==
          CASE IsFull(st) -> FullOrSymbolic(known, st.reg)
            [] IsReg(st) /\ ~IsFull(st) -> ReadAccess(known, st)
            [] st.kind = "imm" -> ExtractAccess(Const(st.value), w, 0)
            [] OTHER -> NoValue
    IN  CASE unsigned = NoValue \/ ~signed \/ w = 32 -> unsigned
          [] unsigned # NoValue /\ signed /\ w < 32 ->
               IF unsigned[1] = "const" THEN Const(SignExtend(w, unsigned[2]))
               ELSE <<"unary", w, unsigned>>

\* Undefined for a scaled index; a zero displacement is left out.
AddressValue(known, ea) ==
    LET term(r)  == IF r = None THEN <<>> ELSE <<FullOrSymbolic(known, r)>>
        regs     == term(ea.base) \o term(ea.index)
        terms    == IF ea.disp # 0 \/ regs = <<>> THEN Append(regs, Const(ea.disp)) ELSE regs
    IN  IF ea.index # None /\ ea.scale # 1 THEN NoValue
        ELSE FoldLeft(LAMBDA a, b : <<"binary", "add", a, b>>, Head(terms), Tail(terms))

-----------------------------------------------------------------------------
(* The value tracker and what a rewrite emits.                              *)

Tracked(tracker, ref) ==
    CASE ref[1] = "const" -> ref
      [] ref[1] = "var" ->
           LET found == SelectSeq(tracker, LAMBDA e : e[1] = ref[2])
           IN  IF found = <<>> THEN NoValue ELSE found[1][2]
      [] OTHER -> NoValue

\* A variable is assigned once, so recording never replaces.
Record(tracker, id, v) == IF v = NoValue THEN tracker ELSE Append(tracker, <<id, v>>)

OpValue(tracker, op, known) ==
    CASE op.op = "get" -> IF op.symbolic THEN Symbolic(op.source.reg)
                          ELSE StorageValue(known, op.source, op.width, op.signed)
      [] op.op = "address" -> AddressValue(known, op.operand)
      [] op.op = "value.const" -> Const(op.value)
      [] op.op = "value.binary" ->
           LET a == Tracked(tracker, op.a)
               b == Tracked(tracker, op.b)
           IN  IF NoValue \in {a, b} THEN NoValue ELSE <<"binary", op.operator, a, b>>
      [] op.op = "value.unary" ->
           LET a == Tracked(tracker, op.a)
           IN  IF a = NoValue THEN NoValue ELSE <<"unary", op.operator, a>>
      [] OTHER -> NoValue

recordOp(tracker, op, known) ==
    IF op.op \in HasResult THEN Record(tracker, op.dst, OpValue(tracker, op, known)) ELSE tracker

\* Mutant: the last variable of the instruction is handed out again.
lastInstructionVarId(ops) ==
    Max({0} \cup {ops[j].dst : j \in {k \in DOMAIN ops : ops[k].op \in HasResult}})

\* A rewrite has the operations so far, the tracker of what their variables
\* hold, and the next unused variable.
nextInstructionVarId(ops) ==
    Max({0} \cup {ops[j].dst + 1 : j \in {k \in DOMAIN ops : ops[k].op \in HasResult}})
Rewrite(ops) == [out |-> <<>>, refs |-> <<>>, fresh |-> nextInstructionVarId(ops)]

Emit(s, op) == [s EXCEPT !.out = Append(@, op)]
CopyOp(s, op) == [Emit(s, op) EXCEPT !.refs = recordOp(@, op, NothingKnown)]

\* The reference of a value: a variable that holds it, or one computed now.
RECURSIVE EmitRef(_, _), EmitAs(_, _, _)
EmitRef(s, v) ==
    LET holders == SelectSeq(s.refs, LAMBDA e : e[2] = v)
    IN  CASE v[1] = "const" -> [s |-> s, ref |-> v]
          [] v[1] # "const" /\ holders # <<>> -> [s |-> s, ref |-> Var(holders[1][1])]
          [] OTHER -> [s   |-> EmitAs([s EXCEPT !.fresh = @ + 1], s.fresh, v),
                       ref |-> Var(s.fresh)]
EmitAs(s, d, v) ==
    LET done(after, op) == [Emit(after, op) EXCEPT !.refs = Record(@, d, v)]
    IN  CASE v[1] = "const" -> done(s, ValueConst(d, v[2]))
          [] v[1] = "reg"   -> done(s, SymbolicRead(d, v[2]))
          [] v[1] = "unary" -> LET a == EmitRef(s, v[3])
                               IN  done(a.s, UnaryOp(d, v[2], a.ref))
          [] v[1] = "binary" -> LET a == EmitRef(s, v[3])
                                    b == EmitRef(a.s, v[4])
                                IN  done(b.s, Binary(d, v[2], a.ref, b.ref))

\* All values are computed before the first register is written.
materializeJitRegisterValues(s, pairs) ==
    LET writes == SelectSeq(pairs, LAMBDA p : p[2] # Symbolic(p[1]))
        add(acc, p) == LET e == EmitRef(acc.s, p[2])
                       IN  [s |-> e.s, sets |-> Append(acc.sets, MaterializeSet(p[1], e.ref))]
        computed == FoldLeft(add, [s |-> s, sets |-> <<>>], writes)
    IN  [computed.s EXCEPT !.out = @ \o computed.sets]

-----------------------------------------------------------------------------
(* registerValuePropagation: register writes are deferred, reads replaced   *)
(* by the value, and the writes made good where somebody can look.          *)
(* The state is a rewrite with what is known of the registers and the       *)
(* analysis's own tracker of the instruction's variables.                   *)

RECURSIVE materializationClosure(_, _)
materializationClosure(known, regs) ==
    LET full(r)   == FullValue(known, r)
        written   == {r \in regs : full(r) \notin {NoValue, Symbolic(r)}}
        dependent == {r \in Registers : SymbolicRegs(full(r)) \cap written # {}}
    IN  IF dependent \subseteq regs THEN regs
        ELSE materializationClosure(known, regs \cup dependent)

materializeRegs(p, regs) ==
    LET all == {r \in materializationClosure(p.known, regs) : FullValue(p.known, r) # NoValue}
        order == SelectSeq(RegOrder, LAMBDA r : r \in all)
        pairs == [k \in DOMAIN order |-> <<order[k], FullValue(p.known, order[k])>>]
    IN  [materializeJitRegisterValues(p, pairs) EXCEPT
            !.known = [r \in Registers |-> IF r \in all THEN NoPrefix ELSE @[r]]]

materializeAll(p) == materializeRegs(p, Registers)

\* Other registers' values that name the register about to be written: full
\* ones are written out, partial ones forgotten.
materializeDependencies(p, r) ==
    LET uses(q) == p.known[q] # NoPrefix /\ r \in SymbolicRegs(p.known[q][2])
        full    == {q \in Registers \ {r} : uses(q) /\ p.known[q][1] = 32}
        partial == {q \in Registers : uses(q) /\ p.known[q][1] < 32}
    IN  [materializeRegs(p, full) EXCEPT
            !.known = [q \in Registers |-> IF q \in partial THEN NoPrefix ELSE @[q]]]

Forget(p, r) == [p EXCEPT !.known[r] = NoPrefix]
Copy(p, op) == [CopyOp(p, op) EXCEPT !.vars = recordOp(@, op, p.known)]
Fold(p, op, v) == [EmitAs(p, op.dst, v) EXCEPT !.vars = Record(@, op.dst, v)]

propagateGet(p, op) ==
    IF ~op.symbolic /\ IsReg(op.source) /\ ReadAccess(p.known, op.source) # NoValue
    THEN Fold(p, op, StorageValue(p.known, op.source, op.width, op.signed))
    ELSE Copy(p, op)

propagateAddress(p, op) ==
    LET readRegs == {r \in {op.operand.base, op.operand.index} \ {None} :
                       FullValue(p.known, r) # NoValue}
    IN  IF AddressValue(p.known, op.operand) = NoValue
        THEN Copy(materializeRegs(p, readRegs), op)
        ELSE Fold(p, op, AddressValue(p.known, op.operand))

\* leaving: the next operation is an exit, so a deferred write would be made
\* good at once.
propagateSet(p, op, leaving) ==
    LET r == op.target.reg
        v == Tracked(p.vars, op.value)
        retained == IsFull(op.target) /\ v # NoValue /\ (~leaving \/ v = Symbolic(r))
        p1 == IF IsFull(op.target) THEN p ELSE materializeRegs(p, {r})
        p2 == materializeDependencies(p1, r)
        kept == IF IsFull(op.target) THEN NoValue ELSE v
    IN  CASE ~IsReg(op.target) -> Copy(p, op)
          [] IsReg(op.target) /\ op.materializes -> Forget(Copy(materializeDependencies(p, r), op), r)
          [] IsReg(op.target) /\ ~op.materializes /\ retained ->
               [p EXCEPT !.known = WriteAccess(@, op.target, v)]
          [] OTHER -> [Copy(p2, op) EXCEPT !.known = WriteAccess(@, op.target, kept)]

propagateSetIf(p, op) ==
    IF ~IsReg(op.target) THEN Copy(p, op)
    ELSE LET r == op.target.reg
         IN  Forget(Copy(materializeDependencies(materializeRegs(p, {r}), r), op), r)

propagateInstruction(p, ops, last) ==
    LET start == Rewrite(ops) @@ [known |-> p.known, vars |-> <<>>]
        before == IF \E j \in DOMAIN ops : MayFault(ops[j]) THEN materializeAll(start) ELSE start
        step(q, j) ==
          LET op == ops[j]
          IN  CASE op.op = "get" -> propagateGet(q, op)
                [] op.op = "address" -> propagateAddress(q, op)
                [] op.op = "set" -> propagateSet(q, op, j < Len(ops) /\ HasExit(ops[j + 1], last))
                [] op.op = "set.if" -> propagateSetIf(q, op)
                [] OTHER -> Copy(IF HasExit(op, last) THEN materializeAll(q) ELSE q, op)
    IN  FoldLeftDomain(LAMBDA q, j : step(q, j), before, ops)

registerValuePropagation(block) ==
    LET step(acc, i) ==
          LET p == propagateInstruction(acc, block[i], i = Len(block))
          IN  [known |-> p.known, block |-> Append(acc.block, p.out)]
    IN  FoldLeftDomain(step, [known |-> NothingKnown, block |-> <<>>], block).block

-----------------------------------------------------------------------------
(* flagConditionSpecialization: a condition whose flags all come from one   *)
(* flags.set of the block is tested on that producer's operands.            *)

Incoming == <<0, 0>>

reachStep(f, op, at, used) ==
    CASE op.op = "set" /\ IsReg(op.target) ->
           [f EXCEPT !.known = WriteAccess(@, op.target, Tracked(f.vars, op.value))]
      [] op.op = "set.if" /\ IsReg(op.target) -> [f EXCEPT !.known[op.target.reg] = NoPrefix]
      [] op.op = "flags.set" ->
           [f EXCEPT !.owners = [flag \in Flags |->
                                   IF flag \in WrittenMask[op.producer] \cup UndefMask[op.producer]
                                   THEN at ELSE @[flag]],
                     !.inputs = (at :> [n \in ProducerInputs[op.producer] |->
                                          Tracked(f.vars, op.inputs[n])]) @@ @]
      [] op.op = "aluFlags.condition" /\ op.dst \in used ->
           [f EXCEPT !.reads = (at :> {f.owners[flag] : flag \in ConditionReads(op.cc)}) @@ @]
      [] OTHER -> [f EXCEPT !.vars = recordOp(@, op, f.known)]

analyzeJitReachingFlags(block) ==
    LET instruction(f, i) ==
          FoldLeftDomain(LAMBDA g, j : reachStep(g, block[i][j], <<i, j>>, ConditionUses(block[i])),
                         [f EXCEPT !.vars = <<>>], block[i])
    IN  FoldLeftDomain(instruction,
                       [known |-> NothingKnown, vars |-> <<>>, inputs |-> <<>>, reads |-> <<>>,
                        owners |-> [flag \in Flags |-> Incoming]], block)

Before(a, b) == a[1] < b[1] \/ (a[1] = b[1] /\ a[2] < b[2])

\* The first write of the variable to a register after the producer.
findResultWriteback(block, ref, after, before) ==
    LET isWriteback(at) == LET op == block[at[1]][at[2]]
                           IN  op.op = "set" /\ ~op.materializes /\ op.value = ref /\ IsReg(op.target)
        found == {at \in Between(block, after, before) : isWriteback(at)}
    IN  {at \in found : \A other \in found \ {at} : Before(at, other)}

\* Mutant: an operand is used without asking whether it still holds.
InputsUsableWhenClobbered(block, values, names, source, read) ==
    \A n \in names : values[n] # NoValue

InputsUsable(block, values, names, source, read) ==
    \A n \in names : \A r \in SymbolicRegs(values[n]) : ~ClobberedBetween(block, r, source, read)

\* What the direct condition tests: a function from input names to values,
\* or the register that still holds the producer's result; none if neither.
directFlagCondition(block, reach, read) ==
    LET op     == block[read[1]][read[2]]
        source == CHOOSE owner \in reach.reads[read] : TRUE
        p      == block[source[1]][source[2]]
        values == reach.inputs[source]
        kind   == flagProducerConditionKind(p.producer, op.cc, ProducerInputs[p.producer])
        names  == flagProducerConditionInputNames(kind)
        byResult == flagProducerConditionKind(p.producer, op.cc, {"result"})
        back   == findResultWriteback(block, p.inputs["result"], source, read)
        from   == CHOOSE at \in back : TRUE
        holder == block[from[1]][from[2]].target.reg
        single == /\ read \in DOMAIN reach.reads
                  /\ Incoming \notin reach.reads[read] /\ Cardinality(reach.reads[read]) = 1
        modeled == single /\ kind # "none" /\ \A n \in names : values[n] # NoValue
        direct == modeled /\ InputsUsable(block, values, names, source, read)
        result == /\ modeled /\ values["result"] # NoValue /\ byResult # "none"
                  /\ p.inputs["result"][1] = "var" /\ back # {}
                  /\ ~ClobberedBetween(block, holder, from, read)
    IN  CASE direct -> [op |-> p, values |-> [n \in names |-> values[n]]]
          [] ~direct /\ result -> [op |-> p, holder |-> holder]
          [] OTHER -> NoValue

emitDirectFlagCondition(s, op, direct) ==
    LET p == direct.op
        emitInput(acc, n) == LET e == EmitRef(acc.s, direct.values[n])
                             IN  [s |-> e.s, in |-> (n :> e.ref) @@ acc.in]
        order == SelectSeq(<<"left", "right", "result">>, LAMBDA n : n \in DOMAIN direct.values)
        inputs == FoldLeft(emitInput, [s |-> s, in |-> <<>>], order)
    IN  IF "holder" \in DOMAIN direct
        THEN Emit(Emit([s EXCEPT !.fresh = @ + 1], Get(s.fresh, Reg(direct.holder), 32)),
                  ProducerCondition(op.dst, op.cc, p.producer, p.width, Inputs1(Var(s.fresh))))
        ELSE Emit(inputs.s, ProducerCondition(op.dst, op.cc, p.producer, p.width, inputs.in))

flagConditionSpecialization(block) ==
    LET reach == analyzeJitReachingFlags(block)
        step(s, op, at) ==
          LET direct == IF op.op = "aluFlags.condition" THEN directFlagCondition(block, reach, at)
                        ELSE NoValue
          IN  IF direct = NoValue THEN CopyOp(s, op) ELSE emitDirectFlagCondition(s, op, direct)
    IN  [i \in DOMAIN block |->
           FoldLeftDomain(LAMBDA s, j : step(s, block[i][j], <<i, j>>),
                          Rewrite(block[i]), block[i]).out]

-----------------------------------------------------------------------------
(* The two cleanups.                                                        *)

\* Mutant: an instruction that may fault does not need the flags it enters with.
NoEntryReads(ops) == {}

\* An instruction that may fault reads all flags on entry.
entryReadMask(ops) == IF \E j \in DOMAIN ops : MayFault(ops[j]) THEN Flags ELSE {}

\* A flags.set stays if one of its flags is read before it is written again.
\* Exits read all flags.
flagDce(block) ==
    LET op(o, acc) ==
          LET live == acc.live
                        \cup (IF o.op = "aluFlags.condition" THEN ConditionReads(o.cc) ELSE {})
                        \cup (IF HasExit(o, acc.last) THEN Flags ELSE {})
              produced == WrittenMask[o.producer] \cup UndefMask[o.producer]
          IN  CASE o.op # "flags.set" -> [acc EXCEPT !.live = live, !.out = <<o>> \o @]
                [] o.op = "flags.set" /\ live \cap produced # {} ->
                     [acc EXCEPT !.live = live \ WrittenMask[o.producer], !.out = <<o>> \o @]
                [] OTHER -> acc
        instruction(ops, acc) ==
          LET r == FoldRight(op, ops, [live |-> acc.live, out |-> <<>>, last |-> acc.out = <<>>])
          IN  [live |-> r.live \cup entryReadMask(ops), out |-> <<r.out>> \o acc.out]
    IN  FoldRight(instruction, block, [live |-> {}, out |-> <<>>]).out

VarUses(op) == {ref[2] : ref \in {r \in ValueUses(op) : r[1] = "var"}}

\* A read that can fault stays even if nobody uses what it read.
canDropUnusedResult(op) == op.op \in HasResult /\ ~MayFault(op)

localDce(block) ==
    LET op(o, acc) ==
          IF canDropUnusedResult(o) /\ o.dst \notin acc.live THEN acc
          ELSE [live |-> (IF o.op \in HasResult THEN acc.live \ {o.dst} ELSE acc.live) \cup VarUses(o),
                out  |-> <<o>> \o acc.out]
    IN  [i \in DOMAIN block |-> FoldRight(op, block[i], [live |-> {}, out |-> <<>>]).out]
=============================================================================
