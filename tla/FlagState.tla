------------------------------ MODULE FlagState ------------------------------
(***************************************************************************)
(* The lazy arithmetic flags of the JIT (jit/state/flag-state.ts), driven  *)
(* the way one block's emission drives them.  Each flag of the compact     *)
(* word comes from memory, from the flags local, or from a pending         *)
(* producer whose operands wait in locals.  Conditions test a pending      *)
(* producer's operands when they can and otherwise materialize the flags   *)
(* they read; boundaries, planned at faulting instructions and exits       *)
(* (jit/codegen/plan), bring the word in memory up to date.                *)
(*                                                                         *)
(* As in RegisterState the compiler and the code it emits run side by      *)
(* side: the record jit is the compiler's knowledge with the contents of   *)
(* the emitted locals and the word in memory.                              *)
(***************************************************************************)
EXTENDS FlagModel, ValueLocalStore

CONSTANTS
    Regs,          \* the registers the block's instructions name
    Starts,        \* the register values a block may start from
    Menu(_),       \* the <<instruction, width, destination, source>> its n-th
                   \*   flag writer may be
    Starting,      \* the flag words a block may start from
    Tested,        \* the conditions the block's instructions test
    MaxWriters,    \* bound on the instructions that set flags
    MaxCopies      \* bound on the register materializations

ASSUME BlockAssumption ==
    /\ MaxWriters \in Nat /\ MaxCopies \in Nat
    /\ IsFiniteSet(Regs)
    /\ Selected \subseteq Regs \X Widths
    /\ Starts \subseteq [Regs -> Values]
    /\ Tested \subseteq ConditionCodes
    /\ Starting \subseteq [Flags -> BOOLEAN]

VARIABLES
    jit,          \* flagSources, releasedPendingFlags, materializedMask,
                  \*   aluFlagsLocalDirty, and the locals
    held,         \* the value local a register's known value is, with its owner
    regs,         \* the guest's registers
    word,         \* the compact flags word when every flags.set is executed at once
    arch,         \* the flags as integer arithmetic defines them
    undefined,    \* the flags the last logic instruction left undefined
    speculative,  \* JitBlockStateTracker.speculativeFlagsMask
    entry,        \* the word at the start of the current instruction
    phase,        \* "between" instructions, "in" one, in a "faulting" one, or "done"
    copies        \* register materializations so far

vars == <<jit, held, regs, word, arch, undefined, speculative, entry, phase, copies>>

-----------------------------------------------------------------------------
(* Instructions: what they compute and the flags integers say they set.     *)

Producer == [add |-> "add", sub |-> "sub", cmp |-> "sub", neg |-> "sub", inc |-> "inc",
             dec |-> "dec", xor |-> "logic", and |-> "logic", or |-> "logic", test |-> "logic"]
Instructions == DOMAIN Producer
Unary == {"inc", "dec", "neg"}

\* The i32 result, not truncated to the operand width.
Result(op, x, y) ==
    CASE op \in {"add", "inc"} -> Wrap(x + y)
      [] op \in {"sub", "cmp", "dec", "neg"} -> Wrap(x - y)
      [] op = "xor" -> Xor(x, y)
      [] op = "or" -> Or(x, y)
      [] op \in {"and", "test"} -> And(x, y)

Signed(w, v) == IF v >= SignMask(w) THEN v - 2 ^ Bits(w) ELSE v
InRange(w, n) == -SignMask(w) <= n /\ n < SignMask(w)

ArithmeticFlags(op, w, x, y) ==
    LET exact == CASE Producer[op] \in {"add", "inc"} -> x + y
                   [] Producer[op] \in {"sub", "dec"} -> x - y
                   [] OTHER -> Result(op, x, y)
        signed == IF Producer[op] \in {"add", "inc"} THEN Signed(w, x) + Signed(w, y)
                  ELSE Signed(w, x) - Signed(w, y)
        half == 2 ^ HalfBit
        result == exact % 2 ^ Bits(w)
        logic == Producer[op] = "logic"
    IN  [CF |-> ~logic /\ exact \notin 0 .. 2 ^ Bits(w) - 1,
         ZF |-> result = 0,
         SF |-> result >= SignMask(w),
         PF |-> Parity8(result),
         AF |-> IF Producer[op] \in {"add", "inc"} THEN (x % half) + (y % half) >= half
                ELSE (x % half) < (y % half),
         OF |-> ~logic /\ ~InRange(w, signed)]

\* The operands in order: neg subtracts from zero, inc and dec use one.
Operands(op, x, y) == IF op = "neg" THEN <<0, x>> ELSE IF op \in Unary THEN <<x, 1>> ELSE <<x, y>>

Writes(w, old, value) == old - Masked(w, old) + Masked(w, value)

-----------------------------------------------------------------------------
(* The emitter.                                                             *)

\* The source of a flag: memory, the flags local, or a pending producer.
Incoming == -1
FlagsLocal == 0

\* One step per flag, in the order of the masks.
InFlagOrder(step(_, _), j) ==
    LET carry == step(j, "CF")
        parity == step(carry, "PF")
        adjust == step(parity, "AF")
        zero == step(adjust, "ZF")
        sign == step(zero, "SF")
    IN  step(sign, "OF")

\* A captured input is a value of its own, or a handle on a shared local.
OwnInput(value) == [local |-> NoLocal, value |-> value]
NoInput == OwnInput(0)
HandleInput(l, value) == [local |-> l, value |-> value]
InputValue(j, in) == IF in.local = NoLocal THEN in.value ELSE j.store.content[in.local]
InputNames == {"left", "right", "result"}
PendingInputs(j, p) == [n \in InputNames |-> InputValue(j, j.pending[p].inputs[n])]

Referenced(j, p) == \E f \in Flags : j.source[f] = p

\* Mutant: the handles of a replaced producer are never given back.
ReleaseNothing(j, p) == j

ReleaseInput(store, in) == IF in.local = NoLocal THEN store ELSE Release(store, in.local)
ReleaseInputs(j, p) ==
    LET inputs == j.pending[p].inputs
    IN  [j EXCEPT !.store = ReleaseInput(ReleaseInput(ReleaseInput(@, inputs["left"]), inputs["right"]),
                                         inputs["result"])]

ReleaseIfUnreferenced(j, p) ==
    IF p \in j.released \/ Referenced(j, p) THEN j
    ELSE [ReleaseInputs(j, p) EXCEPT !.released = @ \cup {p}]

\* The flags of mask come from source now; a producer no flag refers to any
\* more gives up its inputs, once.
SetSource(j, mask, source) ==
    LET next == [j EXCEPT !.source = [f \in Flags |-> IF f \in mask THEN source ELSE @[f]]]
        replaced(f) == f \in mask /\ j.source[f] \notin {Incoming, FlagsLocal, source}
    IN  InFlagOrder(LAMBDA s, f : IF replaced(f) THEN ReleaseIfUnreferenced(s, j.source[f]) ELSE s, next)

EmitPendingFlags(j, p, mask) ==
    LET d == Descriptor(j.pending[p].producer, j.pending[p].width, PendingInputs(j, p))
    IN  [SetSource([j EXCEPT !.local = emitSetFlags(@, d, mask)], mask, FlagsLocal)
           EXCEPT !.materialized = @ \cup mask, !.dirty = TRUE]

\* The producer a flag of mask waits for, emitted for all the flags of mask that do.
EmitPendingOf(j, mask, f) ==
    IF f \in mask /\ j.source[f] \notin {Incoming, FlagsLocal}
    THEN EmitPendingFlags(j, j.source[f], {g \in mask : j.source[g] = j.source[f]})
    ELSE j

MaterializePending(j, mask) == InFlagOrder(LAMBDA s, f : EmitPendingOf(s, mask, f), j)

MaterializeIncoming(j, mask) ==
    IF mask = {} THEN j
    ELSE [SetSource(j, mask, FlagsLocal)
            EXCEPT !.local = [f \in Flags |-> IF f \in mask \/ j.materialized = {}
                                              THEN j.stored[f] ELSE @[f]],
                   !.materialized = @ \cup mask]

MaterializeFlags(j, mask) ==
    MaterializePending(MaterializeIncoming(j, {f \in mask : j.source[f] = Incoming}), mask)

EmitMaterialize(j, mask) == MaterializeFlags(j, mask \ j.materialized)

\* Mutant: the store publishes the flags local without merging the others in.
EmitBoundaryUnmerged(j, mask) ==
    LET some == MaterializePending(j, mask \ j.materialized)
    IN  IF some.dirty THEN [some EXCEPT !.stored = some.local, !.dirty = FALSE] ELSE some

\* A store publishes a complete word: untouched flags are merged in first.
EmitBoundary(j, mask) ==
    LET some == MaterializePending(j, mask \ j.materialized)
        all == MaterializeFlags(some, Flags \ some.materialized)
    IN  IF some.dirty THEN [all EXCEPT !.stored = all.local, !.dirty = FALSE] ELSE some

\* Mutant: the flags written are still taken to be in the flags local.
EmitSetStillMaterialized(j, descriptor) ==
    LET p == Len(j.pending) + 1
        written == WrittenMask[descriptor.producer] \cup UndefMask[descriptor.producer]
    IN  SetSource([j EXCEPT !.pending = Append(@, descriptor)], written, p)

EmitSet(j, descriptor) ==
    LET p == Len(j.pending) + 1
        written == WrittenMask[descriptor.producer] \cup UndefMask[descriptor.producer]
    IN  [SetSource([j EXCEPT !.pending = Append(@, descriptor)], written, p)
           EXCEPT !.materialized = @ \ written]

\* Mutant: one pending flag is enough to answer from its producer's operands.
ConditionSourceOfAny(j, cc) ==
    {p \in 1 .. Len(j.pending) :
       /\ \E f \in ConditionReads(cc) : j.source[f] = p
       /\ flagProducerConditionKind(j.pending[p].producer, cc, InputNames) # "none"}

\* The producers whose operands can answer the condition: all the flags it
\* reads are pending on one, and the condition has a direct form.
ConditionSource(j, cc) ==
    {p \in 1 .. Len(j.pending) :
       /\ \A f \in ConditionReads(cc) : j.source[f] = p
       /\ flagProducerConditionKind(j.pending[p].producer, cc, InputNames) # "none"}

DirectCondition(j, p, cc) ==
    emitFlagProducerCondition(
        flagProducerConditionKind(j.pending[p].producer, cc, InputNames),
        j.pending[p].width, PendingInputs(j, p))

EmitCondition(j, cc) ==
    IF ConditionSource(j, cc) # {} THEN j ELSE EmitMaterialize(j, ConditionReads(cc))

\* The answer the emitted code computes.
EmitAluFlagsCondition(j, cc) ==
    IF ConditionSource(j, cc) # {}
    THEN DirectCondition(j, CHOOSE p \in ConditionSource(j, cc) : TRUE, cc)
    ELSE ConditionOf(cc, EmitCondition(j, cc).local)

\* The value of a register read, or of one the plan caches.
ReadValue(v) == Masked(v[2], regs[v[1]])
ReadsOf(r) == {v \in Selected : v[1] = r}

CaptureInput(j, v, reuse) ==
    IF reuse THEN [j EXCEPT !.store = CaptureForReuse(@, v, ReadValue(v))] ELSE j
CapturedInput(j, v, reuse) ==
    IF reuse THEN HandleInput(j.store.local[v], ReadValue(v)) ELSE OwnInput(ReadValue(v))

\* A register's known value is dropped with the handle that kept its local,
\* and the cached values that read the register are forgotten.
DropHeld(j, r) == IF held[r] = NoLocal THEN j ELSE [j EXCEPT !.store = Release(@, held[r])]
\* Mutant: the cached values that read the register survive its write.
NotifyNothing(j, r) == j

NotifyWrite(j, r) == [j EXCEPT !.store = ForgetWhere(@, ReadsOf(r))]
WriteRegister(j, r) == NotifyWrite(DropHeld(j, r), r)

-----------------------------------------------------------------------------
Init ==
    /\ word \in Starting /\ arch = word /\ entry = word /\ undefined = {}
    /\ regs \in Starts
    /\ held = [r \in Regs |-> NoLocal]
    /\ jit = [source |-> [f \in Flags |-> Incoming], pending |-> <<>>, released |-> {},
              local |-> [f \in Flags |-> FALSE], materialized |-> {}, dirty |-> FALSE,
              stored |-> word, store |-> EmptyStore]
    /\ speculative = {} /\ phase = "between" /\ copies = 0

InInstruction == phase \in {"in", "faulting"}

\* The boundary of a faulting instruction comes before its first operation.
BeginInstruction(faults) ==
    /\ phase = "between"
    /\ phase' = IF faults THEN "faulting" ELSE "in"
    /\ jit' = IF faults THEN EmitBoundary(jit, speculative) ELSE jit
    /\ UNCHANGED <<held, regs, word, arch, undefined, speculative, entry, copies>>

EndInstruction ==
    /\ InInstruction
    /\ phase' = "between" /\ entry' = word
    /\ UNCHANGED <<jit, held, regs, word, arch, undefined, speculative, copies>>

\* An ALU instruction on registers: operands, flags, then the destination.
Alu(op, w, dst, src, reuse) ==
    LET v == <<dst, w>>
        u == <<src, w>>
        in == Operands(op, ReadValue(v), ReadValue(u))
        result == Result(op, in[1], in[2])
        reuseLeft == reuse /\ v \in Selected
        reuseRight == reuse /\ u \in Selected /\ op \notin Unary
        j1 == CaptureInput(jit, v, reuseLeft)
        j2 == CaptureInput(j1, u, reuseRight)
        dstInput == CapturedInput(j1, v, reuseLeft)
        needed == ProducerInputs[Producer[op]]
        left == IF op = "neg" THEN OwnInput(0) ELSE dstInput
        right == IF op = "neg" THEN dstInput
                 ELSE IF op \in Unary THEN OwnInput(1) ELSE CapturedInput(j2, u, reuseRight)
        inputs == [left |-> IF "left" \in needed THEN left ELSE NoInput,
                   right |-> IF "right" \in needed THEN right ELSE NoInput,
                   result |-> OwnInput(result)]
        j3 == EmitSet(IF Producer[op] = "logic" THEN jit ELSE j2,
                      Descriptor(Producer[op], w, inputs))
    IN  /\ InInstruction
        /\ Len(jit.pending) < MaxWriters
        /\ <<op, w, dst, src>> \in Menu(Len(jit.pending) + 1)
        /\ reuse => HasRoom(jit.store) /\ HasRoom(j1.store)
        /\ word' = emitSetFlags(word, Descriptor(Producer[op], w,
                     [left |-> in[1], right |-> in[2], result |-> result]), Flags)
        /\ arch' = LET new == ArithmeticFlags(op, w, in[1], in[2])
                   IN  [f \in Flags |-> IF f \in WrittenMask[Producer[op]] THEN new[f] ELSE arch[f]]
        /\ undefined' = (undefined \ WrittenMask[Producer[op]]) \cup UndefMask[Producer[op]]
        /\ speculative' = speculative \cup WrittenMask[Producer[op]] \cup UndefMask[Producer[op]]
        /\ IF op \in {"cmp", "test"}
           THEN regs' = regs /\ held' = held /\ jit' = j3
           ELSE /\ regs' = [regs EXCEPT ![dst] = Writes(w, @, result)]
                /\ held' = [held EXCEPT ![dst] = NoLocal]
                /\ jit' = WriteRegister(j3, dst)
        /\ phase' = phase
        /\ UNCHANGED <<entry, copies>>

\* A cached value is used by an instruction that sets no flags.
UseValue(v) ==
    /\ InInstruction /\ HasRoom(jit.store)
    /\ jit' = [jit EXCEPT !.store = EmitForUse(@, v, ReadValue(v))]
    /\ UNCHANGED <<held, regs, word, arch, undefined, speculative, entry, phase, copies>>

\* A register is materialized from a cached value: its known value is the
\* value's local, which it owns from then on.
MaterializeRegister(r, v) ==
    LET captured == CaptureInput(jit, v, TRUE)
    IN  /\ InInstruction /\ copies < MaxCopies /\ HasRoom(jit.store)
        /\ copies' = copies + 1
        /\ regs' = [regs EXCEPT ![r] = ReadValue(v)]
        /\ held' = [held EXCEPT ![r] = captured.store.local[v]]
        /\ jit' = WriteRegister(captured, r)
        /\ UNCHANGED <<word, arch, undefined, speculative, entry, phase>>

\* aluFlags.condition: jcc, cmovcc and setcc.
Condition(cc) ==
    /\ InInstruction
    /\ jit' = EmitCondition(jit, cc)
    /\ UNCHANGED <<held, regs, word, arch, undefined, speculative, entry, phase, copies>>

\* The boundary of an exit covers every flag the block has set.
ExitBlock ==
    /\ InInstruction
    /\ phase' = "done"
    /\ jit' = EmitBoundary(jit, speculative)
    /\ UNCHANGED <<held, regs, word, arch, undefined, speculative, entry, copies>>

Next ==
    \/ \E faults \in BOOLEAN : BeginInstruction(faults)
    \/ EndInstruction
    \/ \E op \in Instructions, w \in Widths, dst, src \in Regs, reuse \in BOOLEAN :
         Alu(op, w, dst, src, reuse)
    \/ \E v \in Selected : UseValue(v)
    \/ \E r \in Regs, v \in Selected : MaterializeRegister(r, v)
    \/ \E cc \in Tested : Condition(cc)
    \/ ExitBlock

Spec == Init /\ [][Next]_vars

-----------------------------------------------------------------------------
(* Properties.                                                              *)

\* A pending producer some flag still refers to.
Live(p) == p \in 1 .. Len(jit.pending) /\ Referenced(jit, p)
Handles == {h \in (1 .. Len(jit.pending)) \X InputNames :
              Live(h[1]) /\ jit.pending[h[1]].inputs[h[2]].local # NoLocal}

\* The emitter's record is well formed and no count or list leaves its range.
TypeOK ==
    /\ jit.source \in [Flags -> Incoming .. Len(jit.pending)]
    /\ jit.materialized = {f \in Flags : jit.source[f] = FlagsLocal}
    /\ {jit.local, jit.stored, word, arch, entry} \subseteq [Flags -> BOOLEAN]
    /\ jit.store.owners \in [Locals -> 0 .. 3 * MaxWriters + MaxCopies]
    /\ jit.store.local \in [Selected -> Locals \cup {NoLocal}]
    /\ jit.store.allocated \in 0 .. MaxLocals
    /\ held \in [Regs -> Locals \cup {NoLocal}] /\ regs \in [Regs -> Values]
    /\ speculative \subseteq Flags /\ undefined \subseteq Flags

\* The flag expressions of flags.ts, truncation and partial producers included,
\* are the flags of integer arithmetic, except where x86 leaves them undefined.
WordIsArchitectural == \A f \in Flags \ undefined : word[f] = arch[f]

\* Whatever mixture of sources a condition may meet here - the operands of a pending
\* producer, the flags local, memory - its answer is the architectural one.
ConditionsAgree ==
    \A cc \in ConditionCodes : EmitAluFlagsCondition(jit, cc) <=> ConditionOf(cc, arch)

\* While an instruction that can fault runs, memory shows the flags of its
\* start, even after it has set its own; at an exit memory shows the flags of
\* everything the block executed.
MemoryShowsFlagsAtExits ==
    /\ phase = "faulting" => jit.stored = entry
    /\ phase = "done" => jit.stored = word

\* An operand a lazy producer waits for is still in its local, whatever was
\* written, cached or released since it was captured.
PendingOperandsSurvive ==
    \A h \in Handles : LET in == jit.pending[h[1]].inputs[h[2]]
                       IN  jit.store.content[in.local] = in.value

\* A value local that emission would read instead of computing the value holds
\* what computing it would give, and so does one a register was copied from.
ValueLocalsCurrent ==
    /\ \A v \in Selected : jit.store.available[v] => UsedValue(jit.store, v) = ReadValue(v)
    /\ \A r \in Regs : held[r] # NoLocal => jit.store.content[held[r]] = regs[r]

\* Each local is owned by exactly the consumers that hold it, once each, and
\* the free list holds exactly the locals nothing refers to.
OwnershipExact ==
    /\ \A l \in Locals :
         jit.store.owners[l] = Cardinality({h \in Handles : jit.pending[h[1]].inputs[h[2]].local = l})
                               + Cardinality({r \in Regs : held[r] = l})
    /\ \A l \in 1 .. jit.store.allocated :
         Cardinality({i \in 1 .. Len(jit.store.free) : jit.store.free[i] = l})
           = (IF jit.store.owners[l] = 0 /\ jit.store.entry[l] = NoEntry THEN 1 ELSE 0)

-----------------------------------------------------------------------------
(* What the theorems of FlagProofs take from integer arithmetic: facts about *)
(* the operators alone, which know nothing of emitters and states.  TLC      *)
(* evaluates them for the widths of the runs (MCFlagState).                  *)

OperandValues(w) == 0 .. 2 ^ Bits(w) - 1
Executed(op, in) == [left |-> in[1], right |-> in[2], result |-> Result(op, in[1], in[2])]

\* Every width is a power of two that divides the largest.
WidthsDivide ==
    \A w \in Widths : 2 ^ Bits(w) \in Nat \ {0} /\ 2 ^ DwordBits % 2 ^ Bits(w) = 0

\* The results of i32 operations are i32 values.
ResultsFit ==
    \A op \in Instructions : \A x, y \in Values :
      LET in == Operands(op, x, y) IN Result(op, in[1], in[2]) \in Values

\* The flag expressions of flags.ts are the flags of integer arithmetic.
FlagsExact ==
    \A op \in Instructions, w \in Widths : \A x, y \in OperandValues(w) :
      LET in == Operands(op, x, y)
          defined == DefineFlags(Producer[op], w, Executed(op, in))
          exact == ArithmeticFlags(op, w, in[1], in[2])
      IN  \A f \in WrittenMask[Producer[op]] \ UndefMask[Producer[op]] : defined[f] = exact[f]

\* Comparing the operands of a subtraction answers what its flags answer.
ComparesExact ==
    \A w \in Widths, cc \in DOMAIN CompareKind : \A x, y \in OperandValues(w) :
      LET in == Executed("sub", <<x, y>>)
      IN  emitFlagProducerCondition(CompareKind[cc], w, in)
            <=> ConditionOf(cc, DefineFlags("sub", w, in))

Arithmetic == WidthsDivide /\ ResultsFit /\ FlagsExact /\ ComparesExact
=============================================================================
