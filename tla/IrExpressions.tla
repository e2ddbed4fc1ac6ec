---------------------------- MODULE IrExpressions ----------------------------
(***************************************************************************)
(* From the operations of one instruction to the expressions its code is   *)
(* generated from: values with one use move to where they are used, unless *)
(* a write in between may change what they read; the others get variables, *)
(* and variables share the slots that hold them.  Both code generators use *)
(* this; they differ in which reads may move and which writes alias them.  *)
(*                                                                         *)
(* An expression is a reference, or <<"source", storage, width, signed>>,  *)
(* <<"address", operand>>, <<"condition", cc>>, <<"producer", operation>>, *)
(* <<"binary", operator, a, b>> or <<"unary", width, a>>.  An expression   *)
(* operation is one of JitIr whose references are expressions, or a let.   *)
(***************************************************************************)
EXTENDS JitIr

Backends == {"jit", "interpreter"}

Let(id, e) == [op |-> "let32", dst |-> id, value |-> e]

-----------------------------------------------------------------------------
(* Which reads may move, and past which writes they may not.                *)

Overlap(a, b) ==
    /\ a.reg = b.reg
    /\ OffsetBits(a.offset) < OffsetBits(b.offset) + Bits(b.width)
    /\ OffsetBits(b.offset) < OffsetBits(a.offset) + Bits(a.width)

\* The JIT knows every operand; only memory stays where it is.
canInlineJitInstructionGet(st) == ~InMemory(st)

jitInstructionStorageRefsMayAlias(write, read) ==
    IF write.kind = "mem" \/ read.kind = "mem" THEN write.kind = "mem" /\ read.kind = "mem"
    ELSE IsReg(write) /\ IsReg(read) /\ Overlap(write, read)

\* The interpreter's code serves every register an operand may name.
InRm(st) ==
    \/ st.kind = "ea"
    \/ IsReg(st) /\ st.bound = "rm"
interpreterCanInlineGet(st) == st.kind # "mem" /\ ~InRm(st)

interpreterStorageRefsMayAlias(write, read) ==
    CASE write.kind = "imm" \/ read.kind = "imm" -> FALSE
      [] InRm(write) \/ InRm(read) -> TRUE
      [] write.kind = "mem" \/ read.kind = "mem" -> write.kind = read.kind
      [] OTHER -> \/ "dynamic" \in {write.bound, read.bound}
                  \/ Overlap(write, read)

canInlineGet(backend, st) ==
    IF backend = "jit" THEN canInlineJitInstructionGet(st) ELSE interpreterCanInlineGet(st)
storageMayAlias(backend, write, read) ==
    IF backend = "jit" THEN jitInstructionStorageRefsMayAlias(write, read)
    ELSE interpreterStorageRefsMayAlias(write, read)

-----------------------------------------------------------------------------
(* Uses.                                                                    *)

InputNames(op) ==
    IF op.op = "flags.set" THEN DOMAIN op.inputs
    ELSE flagProducerConditionInputNames(
             flagProducerConditionKind(op.producer, op.cc, DOMAIN op.inputs))

\* How often an operation uses a variable.
Times(ref, id) == IF ref = Var(id) THEN 1 ELSE 0
StorageTimes(st, id) == IF st.kind = "mem" THEN Times(st.address, id) ELSE 0
UsesOf(op, id) ==
    CASE op.op = "get" -> StorageTimes(op.source, id)
      [] op.op = "set" -> StorageTimes(op.target, id) + Times(op.value, id)
      [] op.op = "set.if" ->
           Times(op.condition, id) + StorageTimes(op.target, id) + Times(op.value, id)
      [] op.op = "value.binary" -> Times(op.a, id) + Times(op.b, id)
      [] op.op = "value.unary" -> Times(op.a, id)
      [] op.op \in {"flags.set", "flagProducer.condition"} ->
           Cardinality({n \in InputNames(op) : op.inputs[n] = Var(id)})
      [] op.op = "jump" -> Times(op.target, id)
      [] op.op = "conditionalJump" -> Times(op.condition, id) + Times(op.taken, id)
      [] op.op = "hostTrap" -> Times(op.vector, id)
      [] OTHER -> 0

countVarUses(ops, id) == FoldLeft(LAMBDA n, op : n + UsesOf(op, id), 0, ops)

conditionalWriteValueVars(ops) ==
    {op.value[2] : op \in {o \in ToSet(ops) : o.op = "set.if" /\ o.value[1] = "var"}}

Writes(op) == IF op.op \in {"set", "set.if"} THEN {op.target} ELSE {}

\* A write that may change what operation j reads comes before the first use.
inlineGetWouldCrossAliasBarrier(backend, ops, j) ==
    \E k \in j + 1 .. Len(ops) :
      /\ \E write \in Writes(ops[k]) : storageMayAlias(backend, write, ops[j].source)
      /\ \A i \in j + 1 .. k : UsesOf(ops[i], ops[j].dst) = 0

\* Operation j's value has no variable of its own: it moves into its one use.
Moves(backend, ops, j) ==
    /\ \/ ops[j].op \in {"address", "value.binary", "value.unary", "flagProducer.condition"}
       \/ /\ ops[j].op = "get"
          /\ canInlineGet(backend, ops[j].source)
          /\ ~inlineGetWouldCrossAliasBarrier(backend, ops, j)
    /\ countVarUses(ops, ops[j].dst) <= 1
    /\ ops[j].dst \notin conditionalWriteValueVars(ops)

-----------------------------------------------------------------------------
(* The builder: the values bound to variables that have no place of their   *)
(* own yet, and the operations so far.                                      *)

valueExpr(s, ref) ==
    IF ref[1] = "var" /\ ref[2] \in DOMAIN s.bindings THEN s.bindings[ref[2]] ELSE ref

storageExpr(s, st) ==
    IF st.kind = "mem" THEN [st EXCEPT !.address = valueExpr(s, @)] ELSE st

AddOp(s, op) == [s EXCEPT !.ops = Append(@, op)]
Bind(s, id, e) == [s EXCEPT !.bindings = (id :> e) @@ @]

\* A value flags or a conditional write need by name gets its variable now.
materializedValue(s, ref) ==
    LET e == valueExpr(s, ref)
    IN  IF e[1] \in {"var", "const", "nextEip"} THEN s
        ELSE [AddOp(s, Let(ref[2], e)) EXCEPT !.bindings = Restrict(@, DOMAIN @ \ {ref[2]})]

\* The values an operation needs in variables, in the order they get them.
NamedValues(op) ==
    CASE op.op \in {"flags.set", "flagProducer.condition"} ->
           [i \in 1 .. Cardinality(InputNames(op)) |->
              op.inputs[SelectSeq(<<"left", "right", "result">>, LAMBDA n : n \in InputNames(op))[i]]]
      [] op.op = "set.if" -> <<op.value>>
      [] OTHER -> <<>>
withInputs(s, op) ==
    [op EXCEPT !.inputs = [n \in InputNames(op) |-> valueExpr(s, @[n])]] @@ [known |-> DOMAIN op.inputs]

\* The value an operation computes.
Expression(s, op) ==
    CASE op.op = "get" -> <<"source", storageExpr(s, op.source), op.width, op.signed>>
      [] op.op = "address" -> <<"address", op.operand>>
      [] op.op = "value.const" -> Const(op.value)
      [] op.op = "value.binary" -> <<"binary", op.operator, valueExpr(s, op.a), valueExpr(s, op.b)>>
      [] op.op = "value.unary" -> <<"unary", op.operator, valueExpr(s, op.a)>>
      [] op.op = "aluFlags.condition" -> <<"condition", op.cc>>
      [] op.op = "flagProducer.condition" -> <<"producer", withInputs(s, op)>>

\* What an operation without a result does.
Statement(s, op) ==
    CASE op.op = "set" ->
           [op EXCEPT !.target = storageExpr(s, @), !.value = valueExpr(s, @)]
      [] op.op = "set.if" ->
           [op EXCEPT !.condition = valueExpr(s, @), !.target = storageExpr(s, @),
                      !.value = valueExpr(s, @)]
      [] op.op = "flags.set" -> withInputs(s, op)
      [] op.op = "next" -> op
      [] op.op = "jump" -> [op EXCEPT !.target = valueExpr(s, @)]
      [] op.op = "conditionalJump" ->
           [op EXCEPT !.condition = valueExpr(s, @), !.taken = valueExpr(s, @)]
      [] op.op = "hostTrap" -> [op EXCEPT !.vector = valueExpr(s, @)]

buildIrExpressionBlock(backend, ops) ==
    LET build(s0, j) ==
          LET op == ops[j]
              s  == FoldLeft(materializedValue, s0, NamedValues(op))
          IN  CASE op.op \notin HasResult -> AddOp(s, Statement(s, op))
                [] op.op \in HasResult /\ (op.op = "value.const" \/ Moves(backend, ops, j)) ->
                     Bind(s, op.dst, Expression(s, op))
                [] OTHER -> AddOp(s, Let(op.dst, Expression(s, op)))
    IN  FoldLeftDomain(build, [bindings |-> <<>>, ops |-> <<>>], ops).ops

-----------------------------------------------------------------------------
(* Slots: a variable may take the place of one whose last use has passed.   *)

\* The expressions an expression is made of.
SubValues(e) ==
    CASE e[1] = "source" -> IF e[2].kind = "mem" THEN <<e[2].address>> ELSE <<>>
      [] e[1] = "producer" -> e[2].inputs
      [] e[1] = "binary" -> <<e[3], e[4]>>
      [] e[1] = "unary" -> <<e[3]>>
      [] OTHER -> <<>>

\* The expressions an operation evaluates, by the operand they are.
Operands(op) ==
    CASE op.op = "let32" -> [value |-> op.value]
      [] op.op = "set" ->
           [value |-> op.value]
           @@ (IF op.target.kind = "mem" THEN [target |-> op.target.address] ELSE <<>>)
      [] op.op = "set.if" -> [condition |-> op.condition, value |-> op.value]
      [] op.op = "flags.set" -> op.inputs
      [] op.op = "jump" -> [target |-> op.target]
      [] op.op = "conditionalJump" -> [condition |-> op.condition, taken |-> op.taken]
      [] op.op = "hostTrap" -> [vector |-> op.vector]
      [] op.op = "next" -> <<>>

RECURSIVE collectValueVarUses(_)
collectValueVarUses(e) ==
    IF e[1] = "var" THEN {e[2]}
    ELSE UNION {collectValueVarUses(part) : part \in Range(SubValues(e))}

collectOpVarUses(op) == UNION {collectValueVarUses(e) : e \in Range(Operands(op))}

\* An operation uses its variables at 2j and assigns one at 2j + 1.
lifetimeEnd(ops, j) ==
    Max({2 * j + 1} \cup {2 * k : k \in {i \in DOMAIN ops : ops[j].dst \in collectOpVarUses(ops[i])}})

\* Mutant: a slot is free as soon as its variable has been used once.
ExpiredAtFirstUse(active, start) == active.start < start

Expired(active, start) == active.end < start

assignIrExprVarSlots(ops) ==
    LET assign(s, j) ==
          IF ops[j].op # "let32" THEN s
          ELSE LET start == 2 * j + 1
                   expired == {a \in s.active : Expired(a, start)}
                   free == s.free \cup {a.slot : a \in expired}
                   slot == IF free = {} THEN s.count ELSE Min(free)
               IN  [slotByVar |-> (ops[j].dst :> slot) @@ s.slotByVar,
                    active |-> (s.active \ expired)
                               \cup {[start |-> start, end |-> lifetimeEnd(ops, j), slot |-> slot]},
                    free |-> free \ {slot},
                    count |-> IF free = {} THEN s.count + 1 ELSE s.count]
    IN  FoldLeftDomain(assign, [slotByVar |-> <<>>, active |-> {}, free |-> {}, count |-> 0], ops).slotByVar
=============================================================================
