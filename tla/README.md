# wasm86 in TLA+

wasm86 (the repository under `src/`, paths below are relative to `src/src/`)
runs 32-bit x86 code on WebAssembly. It has two engines. The *interpreter* is
one generated WebAssembly function that fetches, decodes and executes guest
instructions from guest memory. The *compiled-blocks* engine decodes a basic
block, translates it through an intermediate representation to a WebAssembly
module of its own, caches it, and links cached blocks to each other with tail
calls through per-module tables. Both share two WebAssembly memories, the guest
memory and the CPU state memory. A host loop in TypeScript picks the engine,
counts instructions against a budget and turns engine exits into results.

Everything is single threaded. What is hard is not parallelism but *time*: code
is generated at one time, linked at another and run at a third; state lives in
WebAssembly locals, in lazily evaluated descriptions or in memory depending on
the moment; and a fault may leave a block at almost every instruction.

## Inventory

| component | state it keeps | operations | interacts with |
|---|---|---|---|
| runtime (`runtime/`) | mode, memories, code map, cache; per run: budget, previous count | `run`, `clearCompiledBlocks` | both engines, state memory |
| program regions, code map | regions of code | `contains`, `createReader`, loading | decoder |
| compiled block cache, link tables (`jit/compiled-blocks/`) | block by EIP, dependent tables by target EIP, one slot per link | `getOrCompile`, `invalidate`, `clear` | runtime, block handles, running code (which reads the slots) |
| block handles, module assembly (`jit/block-handle.ts`, `block-module.ts`, `link-targets.ts`) | a module, its exports, its table | compile, run | decoder, optimizer, encoder |
| JIT register state (`jit/state/register-*.ts`) | per register: committed and pending value descriptions and locals; captured exit snapshots | begin/commit instruction, read, write, conditional write, capture, store | emission, value cache |
| JIT flag state (`jit/state/flag-state.ts`) | per flag: incoming, pending producer or local | set, materialize, boundary, condition | emission, value cache |
| JIT codegen plan (`jit/codegen/plan/`) | committed and speculative registers and flags, exit points and their snapshots; uses left per cached value | one pass over the block | emission |
| JIT IR, validation (`jit/ir/`) | none | effects, barriers, def-before-use | optimizer, plan |
| optimizer (`jit/optimization/`) | dataflow facts per operation | flag DCE, condition specialization, value propagation, local DCE | IR |
| Wasm interpreter (`wasm/interpreter/`) | registers, EIP, flags and counter in locals; fuel | one loop: fuel, fetch, dispatch, execute | runtime, both memories |
| Wasm codegen (`wasm/codegen/`) | none (generators) | expressions, flags, conditions, memory with bounds checks, widths | interpreter, JIT |
| Wasm encoder (`wasm/encoder/`) | bytes, local pool, label depth | append, allocate, free | codegen |
| host memories, layout (`wasm/host/`, `state-layout.ts`) | the two memories | typed loads and stores, EFLAGS split | runtime |
| x86 decoder (`x86/isa/decoder/`) | reader position | decode an instruction, a block | code map, ISA tables |
| ISA definitions, schema, semantics | tables | expand, build | decoder, IR |
| x86 IR (`x86/ir/`) | none | build, validate, flag effects | JIT, interpreter generator |
| CPU state, guest memory (`x86/state`, `x86/memory`) | a record of registers; bytes | aliases, flags; bounded access | direct backend, host |
| direct backend (`backends/direct/`) | CPU state | execute IR in TypeScript | a reference for tests |
| feature probes | none | probe | none |

Hard behaviours, and the property that makes each component correct:

- *Cache and links.* Blocks are compiled, invalidated and compiled again in any
  order. Every jump of a cached block must land on what is cached at its target
  *now*, or leave to the host; the reverse index must name exactly the tables to
  be changed.
- *Runtime.* Both engines must execute the same machine. A budget must be
  honoured, or at least never reported early; a run must return; an engine that
  worked must not be mistaken for one that made no progress.
- *Register state.* A partial write (AL, AH, AX) merges with a value that may
  be in a local, a known prefix or memory; a fault exit must see the registers
  as before the instruction, although the stores are emitted later.
- *Flag state.* A lazy flag must be computed from the operands its producer
  had, and be there at every exit that shows it.
- *Codegen plan.* Every exit stores the registers written before it and no
  other; every value kept in a local is still in it at its last use.
- *Optimizer.* Each pass preserves what a block stores at every exit.
- *Interpreter.* State is written back at every exit; fuel is exact.
- *Decoder.* Prefixes, lengths up to 15 bytes and region ends give the same
  instruction or fault whichever reader is used.

The complete list of hazards, each at its line with the properties aimed at it,
is in `PROJECT.json`. Where a passing run leaves out the very case a hazard is
about, the hazard says so in its note, and names no property if nothing is left.

## Modules

Each line reads "extended by" from left to right; the modules whose names begin
with MC hold instances for TLC, those that end in Proofs the theorems.

    LinkedBlocks <- - refines - - BlockCache <---- BlockCacheProofs, MCBlockCache
                                      ^ INSTANCE        ^ INSTANCE
    GuestMachine <- - refines - - Runtime <------- RuntimeDecoding <- RuntimeProofs
                                      ^------- MCRuntime   | SetInduction

    RegisterState <---- RegisterLayers <- RegisterProofs
        ^-------------- MCRegisterState

                    ValueLocalStore
                          v
    FlagModel <------ FlagState <----------------- FlagProofs, MCFlagState
        ^
        +---- JitIr <- JitOptimizer <-----------+
                ^                               |
                +- IrExpressions <- GeneratedCode <- JitPipeline <- MCJitPipeline

    InstructionSet <- IsaDecoder <- InterpreterDecoder <- DecoderProofs,
                                                          MCInterpreterDecoder

A guest instruction passes through them in this order: a decoder reads it
(`IsaDecoder` for blocks, `InterpreterDecoder` in the generated interpreter);
its template becomes operations (`JitIr`); a block of those is optimised
(`JitOptimizer`), turned into expressions (`IrExpressions`) and into code
(`GeneratedCode`), whose register accesses, flags and cached values go through
`RegisterState`, `FlagState` and `ValueLocalStore`; the finished module is cached
and linked (`BlockCache`) and run (`Runtime`). `InterpreterExact` and
`FaultsArePrecise` take the other two routes: the interpreter generates code from
the same operations, the direct backend executes them.

**`LinkedBlocks`** is what the cache promises: a map from entry EIP to compiled
code, and for every link the code it lands on, always equal to what the map
says.

**`BlockCache`** is `WasmCompiledBlockCache` with its `JitModuleLinkTable`s.
`blocks` is `#blocksByEip`, `dependents` is `#dependentTablesByTargetEip`,
`slot[h][t]` what the table of module `h` holds for target `t`. One public call
is one action, because nothing can interleave with it:

| action | code |
|---|---|
| `Hit`, `Compile`, `Unavailable`, `DecodeError` | the ways `getOrCompile` ends |
| `Invalidate`, `Clear` | `invalidate`, `clear` |
| `Write` | any store to guest memory; the cache is not told |

What decoding and compiling give is a constant function `Decode`, so the module
speaks of any decoder. A handle's identity may be reused once nothing refers to
it (`Free`), as a garbage collector does. `written` is a history variable:
entries whose bytes changed since they were compiled or dropped.

**`RegisterState`** is the register side of the JIT's emission
(`jit/state/register-*.ts`). It runs the compiler and the code it emits side by
side: the record `emitter` holds, per register, the committed and the pending
description (`committedStates`, `pendingStates`), the committed and the pending
mutable cell, and what the emitted locals contain on the path the machine takes.
`arch` is what the guest program defines, `archBefore` the same at the start of
the instruction, `memory` the CPU state, `dirty` and `speculative` the sets of
`JitBlockStateTracker`.

| action | code |
|---|---|
| `BeginInstruction` | `beginInstruction`, with the number of planned fault exits |
| `Read`, `Write`, `WriteIf`, `Copy` | register operands: `emitReadAlias`, `emitWriteAlias` (with an emitted value or a prefix source), `emitWriteAliasIf` |
| `MaterializeRegister` | a `set` with role `registerMaterialization` |
| `AccessMemory`, `FaultInMemory` | `prepareExitPoint`, the access, `completeExitPoint` |
| `NextInstruction` | `commitInstruction` |
| `ExitBlock`, `ConditionalExit` | `commitInstructionExit`, once or for both arms |

A register is three segments, bits 0-7, 8-15 and 16-31, so that AL, AH, AX and
EAX are sets of segments and a known prefix is the set it covers; a value is the
number of the write it comes from. A value that inlines a read of the written
register (`selfReads`) is emitted where the code emits it, between the changes
the write makes to the compiler's state. What the instructions of a block may do
is its shape (`Shapes`, chosen once at the start).

**`GuestMachine`** is the machine: one instruction at a time, from memory as it
is, with a counter modulo `Wrap`. It keeps of an instruction only where control
can go and what can go wrong. **`Runtime`** is `RuntimeInstance`: the loop of
`runRuntimeProgram`, the budget, the interpreter and the compiled-blocks engine.
A setup (`Setups`) is a
runtime's mode with the programs, counters and limits it meets and whether its
embedder clears the cache when code changes. `Runtime` contains a `BlockCache` whose contents are decoded blocks (`Block`, after
`decodeIsaBlock`) and changes it only through that module's actions. `state` is
the state memory; `cpu` is the pointer and counter of the engine that runs,
which reach `state` when the engine exits and, between linked blocks, before
each tail call. The phases are

    idle --Run--> loop --Interpret, FallBack--> interpreter --+
      ^            |  ^---Progress--- returned <--exit "none"--+ block
      |            +-----RunBlock-----------------> block -----+
      +---- InstructionLimit, throw, exits with a stop reason

One guest instruction is one action, so a chain of linked blocks is a sequence
of `BlockStep` and `BlockTransfer` steps that never comes back to the loop
unless a slot holds a stub.

Register and flag values are left to other modules: here an instruction is one
of eleven kinds (`GuestMachine!Ops`), a branch goes either way and a memory access
may fault or not. An indirect call (`callDynamic`) both stores and goes anywhere.

**`FlagModel`** is the arithmetic of the six flags: the producers with the inputs
each needs, flags of add, sub, logic, inc and dec from operands and result at
each width (`wasm/codegen/flags.ts`), the conditions as formulas over flags and
over a producer's operands (`conditions.ts`, `x86/ir/model/flag-conditions.ts`).

**`ValueLocalStore`** is the store of value locals (`jit/codegen/emit/value-local-store.ts`):
owners per local, one cache entry per selected value, the free list. Its operators
are functions from store to store. **`FlagState`** is the lazy flag state on top
of it (`jit/state/flag-state.ts`). `jit.source` says for each flag of the word
whether it is incoming, in the flags local, or pending in a producer, whose
operands are held in locals (`jit.pending`). As in `RegisterState` the compiler
and the code it emits run side by side: `arch` is what integers say, `word` what
the expressions give, `jit.stored` what memory shows.

| action | code |
|---|---|
| `BeginInstruction` | the flag boundary planned before an access that may fault |
| `Alu` | `emitSet` of a producer, its operands captured or reused |
| `UseValue`, `MaterializeRegister` | a selected value read from its local, or taken over by a register |
| `Condition` | `emitAluFlagsCondition`: on a producer's operands if it can, else on materialised flags |
| `EndInstruction`, `ExitBlock` | the write of the register, and the boundary at an exit |

**`JitIr`** is the intermediate representation: the operations a semantic template
emits (`x86/isa/semantics`, `x86/ir/build`), their effects, the barriers of each
instruction, the validator, and what a block means. `ExecuteOp` is the operation
of the direct backend (`backends/direct/execute.ts`), `Execute` the list of what a
block publishes: registers and flags at the start of each instruction that may
fault there, and everything at the exit. **`JitOptimizer`** has the four passes with
their analyses as operators from blocks to blocks: liveness of variables, flag
liveness, the flags that reach a condition, symbolic values of registers and
variables, deferred register writes. **`IrExpressions`** is what both generators do
next: values with one use move to it unless a barrier prevents it, the others
get variables, variables get slots (`codegen/expressions.ts`, `var-slots.ts`).
**`GeneratedCode`** evaluates the result as the generated code would, with the
generator's belief of how wide each value is (`value-width.ts`) and the
interpreter's dispatch over registers and its effective address taken before the
instruction. **`JitPipeline`** composes them:

    building --AppendInstruction, FinishBlock--> stage 1 .. 6 --Validate--> done
                 LocalDce, SpecializeConditions, FlagDce, LocalDce,
                 PropagateRegisterValues, LocalDce: one action per pass, in the
                 order of jitIrOptimizationPasses

**`InstructionSet`** is the table of instruction forms (`x86/isa/defs/*.ts` through
`schema/builders.ts`): opcode bytes, ModRM match, operand size, operands.
**`IsaDecoder`** is `decodeIsaInstructionFromReader` as an operator from bytes to
an instruction, a fault or "unsupported". **`InterpreterDecoder`** is the decoder
generated into the interpreter's module, as a state machine with one action per
switch, bounds check or operand: `PrefixCase`, `OpcodeNode`, `ReadModRm`,
`ModRmDispatch`, `BindMemory`, ... A switch is modelled by the depths in its branch
table and the case that many block ends lead to. The two must agree on every image,
refusals included: the same kind, and fault addresses related as `FaultAgrees`
says. They are equal up to the operands; from there on the ISA decoder reports the
byte that is missing, the interpreter the first byte of the field it is in, or
fifteen for a field that would pass the limit, even where memory ends before that.

An opcode byte after the first is always read at offset one
(`opcode-dispatch.ts:101`), however deep the node, so an opcode of three bytes would
have its second byte dispatched on twice. The table has none (`OpcodeAssumption`).

## Runs

| run | question | result |
|---|---|---|
| `block_cache` | Do links and reverse index stay right under any order of compiles, invalidations, clears and writes; does the cache implement `LinkedBlocks`? | holds |
| `runtime` | In either mode, with blocks, links, faults and fallback: is the machine implemented, the interpreter's limit exact, the limit never reported early; does `run` throw only for undecodable code; which blocks can be stale? | holds; stale only at entries whose bytes were written since, and none with an embedder that clears |
| `runtime_returns` | Does a run return? | holds in interpreter mode; in compiled mode without cycles of links and without counter wrap |
| `registers` | Two registers, with and without cells, conditional writes, shared copies and faults: are reads, fault exits and block exits right, are copies independent; does emission ever throw? | holds |
| `registers_branch` | ... both exits of a conditional jump when a register has a cell? | violated |
| `flags` | Do conditions, flag words and published flags stay architectural under every mix of sources; do operands that wait in locals survive; is each local owned exactly by its users? | holds |
| `decoder` | Do the two decoders accept the same bytes as the same instruction, refuse for the same reason, and stay inside memory and fifteen bytes; are the forms told apart? | holds |
| `optimizer` | Does every block of five profiles stay valid after each pass and publish what it did; does removing dead code change anything? | holds |
| `optimizer_return` | ... a return that cleans the stack after a pop? | violated |
| `generated_code` | Do both generators keep the meaning of a block; are faults precise? | holds where reads stay in place |
| `generated_moved` | ... where two deferred writes are made good in one instruction? | violated |
| `generated_width` | ... where arithmetic continues on a zero-extended byte? | violated |

### Findings

*Branch* (`registers_branch`): `emitJitConditionalJump`
(`jit/codegen/emit/control.ts:59`) captures the taken exit inside the wasm `if`.
If a register is in a mutable cell there (`mov ah, dl; jz x`), the capture emits
the copy to a stable local in that arm only, but the compiler's state says for
the rest of the function that the register is in that local. The exit that is
not taken stores zero.

*Return* (`optimizer_return`): `emitJitValueRef` (`jit/ir/rewrite.ts:113`) reuses
a variable that holds a symbolic register although the register was written in
between. In `pop ebp; ret 4` the deferred `esp` is written out before the return's
access, and the next use of "esp of the block's start, plus 8" finds the variable
read before that write: one pop is lost.

*Moved* (`generated_moved`): `inlineGetWouldCrossAliasBarrier`
(`codegen/expressions.ts:251`) looks for a write between a read and its use. When
the use is a computation that itself moves on, writes behind it are not looked
at. In `lea ecx, [eax + 1]; mov eax, 5` both writes are deferred and made good in
one instruction, `eax` first, and `ecx` is computed from the new `eax`.

*Width* (`generated_width`): the sum of two clean narrow values is believed to be
as narrow as they are (`codegen/value-width.ts:161`). After
`inc eax; movzx ecx, al; inc ecx` the value of `ecx` is an and with 0xff plus one,
masked to a byte: 0xff + 1 gives 0.

### What the passing runs leave out

These were met while modelling, with the same modules on other instances. Each
is a narrow case; the instances above exclude it so that they can say what else
holds.

- *Spin*. `WasmBlocksEngine.run` takes a budget and ignores it
  (`runtime/engines/wasm-blocks.ts:18`): a guest loop whose blocks are linked runs
  for ever whatever `maxInstructions` says. `runtime_returns` has no such cycle
  in compiled mode.
- *Wrap*. `remainingInstructions` takes `max(0, current - base)` of a counter kept
  modulo 2^32 (`runtime/execution/budget.ts:32`); once the counter is below its
  base nothing counts as executed. It needs 2^32 instructions, or a state loaded
  with a counter near the top.
- *Widen, low*. A full write forgets a register's cell before it emits a value
  that reads AH (`mov ah, dl; movzx eax, ah`, `register-write.ts:60`); a write of
  AL whose value reads AH moves the register to a full local that the AL prefix
  then hides (`mov ah, dl; mov al, cl; mov al, ah`, `register-write.ts:104`). The
  shape `WithCells` has the pairs that are safe.
- *Partial prefix* (`register-values.ts:347`). Writing a deferred register out
  drops the full values that name it, but not a partial value of another register:
  `inc ecx; mov bl, cl; mov eax, [esp]; mov al, bl`.
- *Symbolic comparison* (`direct-flag-conditions.ts:215`). A condition specialised
  onto operands reads them later than the comparison did:
  `inc ecx; mov eax, [ebx]; cmp ecx, 2; je`.
- *Variables across instructions* (`ir/ranges.ts:44`). Variables are numbered per
  instruction and the search for what overwrites one crosses instructions:
  `cmp eax, ecx; pop eax; je`.
- *Pop to memory* (`isa/semantics/stack.ts:27`) changes `esp` before the store that
  may fault; the interpreter and the direct backend, which change registers in
  place, then report half an instruction.
- `InPlaceCodeExact` speaks of blocks without moved reads (`ReadsInPlace`), the
  subject of *Moved*; `GeneratedCodeExact` is the same statement without that
  condition.

### Bounds

- `block_cache`: three entries and three handles. A link relates a block, its
  target and a change to one of them; the third entry lets two tables depend on
  one target and one table on two. Contents include a loop, a jump to itself, a
  conditional jump, a block that cannot be compiled and a decode fault. Handles
  are symmetric: no definition names one.
- Runtime runs: five addresses, the last outside the code map; programs of four
  to five instructions, each with a reason given in `MCRuntime`. `MaxBlock = 2`
  stands for 1024: enough for blocks that are cut, blocks that end in control
  and blocks of one instruction. Four handles are more than a program has
  entries; TLC would report a deadlock if they ran out.
- `Wrap` stands for 2^32. It is 3 in `runtime`, so that counters wrap in a run, and
  7 in `runtime_returns`, more than a compiled run is long there. `counts` bounds
  where runs begin, on both sides of the wrap; `limits` include 0.
- Register runs: three writes to two registers, with at most one faulting
  access per instruction. A wrong read needs a cell (one write), a prefix over it or a
  copy of it (one), and a write that disturbs it (one). Registers are symmetric. Locals are
  written once, so their number is bounded by the writes. `earlyWrites` are the
  aliases written before the last memory access of their instruction. The
  instruction set makes no such write today, only materializations; the state
  stages them (`jit/tests/register-state.test.ts:157`), and the runs show it is
  right for EAX and AH with cells, and for every prefix without. A low write
  staged over a committed cell would lose the bits above it: the capture freezes
  the cell into a full prefix, which the narrower pending prefix then replaces.
  So the order of operations in the instruction semantics matters.
- Flag run: two registers; operand widths of 2, 3 and 4 bits with the sign bit,
  the carry out and the half carry where the width puts them; three starting
  pairs that carry, borrow, overflow, meet and cancel. Two producers are enough
  for one to replace part of another; two locals and one copied register for a
  local to be shared, released and taken again. The first producer is any on
  bytes, and `add`, `cmp`, `dec` or `xor` at the wider widths; the second one
  keeps the carry (`inc`) or replaces every flag at another width (`cmp`).
  `ConditionsAgree` asks every condition in every state; `Tested` only limits
  which ones also materialise. The run also evaluates `ArithmeticAssumption`,
  every operand at every width, so that a wrong flag expression shows there and a
  wrong use of one in the invariants.
- Decoder run: real opcodes and bytes, not a scaled set. Every opcode of one and
  two bytes with every ModRM.reg with and without the size prefix; every
  addressing form behind four opcodes; memory that ends after each byte of a form
  of each shape; up to sixteen prefixes. Values of displacements do not matter:
  operands name the bytes they come from.
- Pipeline runs: values of five bits, words of four, bytes of two, so that AL, AH
  and AX differ and carries happen in each; one memory cell per address, so
  overlapping accesses of different widths are not told apart. A profile is a set
  of instructions whose passes interact and a length: blocks of up to four in
  `optimizer`, up to three in `generated_code`, where `Forms` also has each form
  with operands that name the same register. Registers outside a profile are
  left out. Two starting states that differ in every register, in the flags and
  in memory; `Execute` compares every state published on the way.
- `ran` counts the instructions of a run and saturates at `MaxRan`, which is
  above every limit and no less than `Wrap`: 4 in `runtime`, 7 in
  `runtime_returns`. No property distinguishes larger values.
- The interpreter's fuel is an i32, so it holds a limit modulo `Wrap`. The limits
  of `runtime` include `Wrap` itself, for which the code reports the limit at once:
  the properties of limits speak of those below `Wrap`.
- `runtime` uses the VIEW `LiveState`, which forgets what a free handle was
  compiled from. No action reads it before `Compile`
  overwrites it. That run checks no liveness.
- Deadlock is checked in the two runtime runs. Elsewhere a block, a decoding or a
  pipeline ends; in `block_cache` the model stops when three handles are in use,
  a bound the program does not have.

### Fairness

`FairSpec` is weak fairness of `Running`: the steps of a call of `run` that has
begun. `run` is synchronous, so once called nothing else is scheduled until it
returns. No fairness is assumed of the embedder, and none of the guest: which way
a branch goes is free.

## Proofs

`BlockCacheProofs` proves, for any sets of entries, contents and handles that
satisfy the three assumptions of `BlockCache`:

| theorem | states |
|---|---|
| `TypeCorrect` | `Spec => []TypeOK` |
| `LinksCoherent` | `Spec => []LinkCoherence` |
| `ReverseIndexExact` | `Spec => []DependentsExact` |
| `LinkedJumpsCurrent` | `Spec => []LinkedJumpsRunCurrentCode` |
| `RetiredFrozen` | `Spec => RetiredTablesAreFrozen` |
| `PromiseKept` | `Spec => Promise`, that is, the cache implements `LinkedBlocks` |

The inductive invariant is `CacheInv`. `LinkCoherence` alone is not inductive:
`Compile` and `Invalidate` change only tables that the reverse index names, so
one has to know that it names every table with a slot for the entry
(`DependentsExact`); that in turn needs that two entries never share a module
(`BlocksDistinct`), or unregistering one block would unregister another's table.
For the code behind a link, `BlocksCompiled` and `BlocksCurrent` say that a
cached handle was compiled, and from what its entry held when it was last
compiled, so that staleness is exactly what `written` records. Each action has
one step per conjunct it can disturb. The refinement proof maps `Compile` to
`Add`, `Invalidate` to `Drop`, `Clear` to `DropAll`, `Write` to `Write` and the
other outcomes of `getOrCompile` to stuttering.

The assumptions are evaluated by TLC in every run of `MCBlockCache`.

`RuntimeProofs` proves, for any runtimes, programs, limits, widths of the counter
and lengths of blocks that satisfy the three assumptions of `Runtime`:

| theorem | states |
|---|---|
| `RuntimeTyped` | `Spec => []TypeOK` |
| `InterpreterLimited` | `Spec => []InterpreterHonoursLimit` |
| `LimitSpent` | `Spec => []LimitMeansSpent` |
| `BlocksCurrentWhileRunning` | `Spec => []BlockRunsWhatMemoryHolds` |
| `ThrowsJustified` | `Spec => ThrowsOnlyUndecodable` |
| `MachineImplemented` | `Spec => ImplementsMachine` |
| `CarefulRunsMachine` | `Spec /\ Careful => Machine!Spec` |

The inductive invariant `RuntimeInv` adds to these properties what the run loop
cannot see. It reads only the counter an engine leaves behind, so `Spent` relates
counter, base and fuel to what was really executed, and `Progressing` says how
far the counter is ahead of where the block engine found it, modulo `Wrap`;
without them a wrapped counter could look like no progress or like a spent
budget. `Exact` holds in interpreter mode, where a run enters its engine once.
`InPlace` says that the function that runs is cached and stands at the
instruction of the pointer: an instruction after a link is the right one only
because the invariant of the cache (`CacheInv`, reused by INSTANCE from
`BlockCacheProofs`) says what a slot holds. The refinement has one step per
action; all host steps map to stuttering and every guest instruction to one step
of the machine, unless the running block is `Stale`. `CarefulRunsMachine` removes
that exception for an embedder that clears the cache when it loads code and
programs that do not store.

What a block contains is decided by a recursive function, `BlocksWithin`.
`RuntimeDecoding` shows that its equation has a solution and what the blocks are
(`BlockDecoded`: consecutive instructions of the memory that is read, no more
than the bound, all but the last straight on) by induction on the bound.
`SetInduction` states induction over the natural numbers for a *set* instead of a
predicate, which a first-order prover can use.

`RegisterProofs` proves, for any registers, any number of writes and any shape of
block:

| theorem | states, with `SafeShape(block)` as premise |
|---|---|
| `RegisterTyped` | `[]TypeOK` |
| `ReadsRight` | `[]ReadsArchitectural` |
| `FaultsRestore` | `[]FaultRestoresInstructionStart` |
| `ExitsStore` | `[]ExitStoresArchitectural`, if `BranchSafe(block)` too |
| `EmissionSafe` | `[]EmissionNeverThrows` |
| `CellsPrivate` | `[]CellsArePrivate` |

The premises are the limits the code has. `SafeShape` excludes, in blocks where a
register can get a cell, the writes of *Widen, low* below and low writes staged
before a memory access; `BranchSafe` excludes what the finding *Branch* violates.
`MCRegisterState` lets TLC evaluate (`ShapeAssumption`) that the shapes of the run
satisfy both and that those of `registers_branch` satisfy the first. The argument
is in two modules. `RegisterLayers` describes one operation at a time: a register
is two layers, each a known prefix over a mutable cell, and an operation changes
one layer of one register and nothing seen through any other. That needs every
cell to be private to its layer (`Sound`), which makes `CellsArePrivate`, seemingly
a detail, the core of the argument. `RegInv` then says that the layers of every
register hold the register of the program and, while the instruction can still
fault, that the committed layers hold it as the instruction found it
(`LayersHold`); that what is pending belongs to this instruction and covers the
committed prefix (`PendingWhole`), or committing would uncover an older value; and
that every register an exit stores has something to store (`StoresReady`).

`DecoderProofs` proves, for every table of forms that meets the assumptions and
every memory:

| theorem | states |
|---|---|
| `ReadsInside` | `Spec => []ReadsStayInside` |
| `DecodersAlike` | `Spec /\ []FormsDispatchable => []DecodersAgree` |
| `RefusalsAlike` | `Spec /\ []FormsDispatchable => []RefusalsAgree` |

`FormsDispatchable` says that the opcode bytes, the operand size and ModRM.reg
tell the forms of the table apart. It is a fact about data, so it stays with TLC,
which evaluates it for the repository's table at every leaf of the tree. Three
assumptions of the modules are used, all evaluated in every run of
`MCInterpreterDecoder`. `IsForm` is what `validateInstructionSpec` checks.
`AddressAssumption` is checked nowhere in the code: the ISA decoder reads the
address right behind ModRM, the interpreter where its operand stands, so a form
with an immediate before its address would be read differently by the two. Nor is
`OpcodeAssumption`, that no opcode is longer than two bytes: the interpreter reads
the byte of every further switch right behind the first. No form of the table
breaks either.

`DecoderInv` says, for each kind of emitted code, where the reading is, and that
opcode bytes are read at nodes with a switch, which `SwitchNode` shows to be at most
one byte deep. `AgreeInv`
adds what the emitted code has done in the terms of the other decoder, which is a
function of all the bytes and so knows nothing of stages. `PrefixesRead` and
`PathRead` say that the bytes passed are prefixes and inner nodes of the tree:
then the ISA decoder, which looks for the *first* byte that is no prefix and the
*first* length that leaves the tree, stops where the walk stands (`OpcodeEnds`).
`FormChosen` says that the switch over ModRM.reg chose the only form that takes
the field; `ModRmCaseIs` derives that from the depths in its branch table, by
counting the cases behind each one (`CasesApart`). `OperandsBound` says that each
operand bound so far is the ISA decoder's and that the reader is where the next
one begins, or, while the address has not been bound, behind ModRM or SIB. A
failed read is then one the ISA decoder must make as well, at most three bytes
on (`FaultNear`), for a field of several bytes or a later operand, which is why
`FaultAgrees` leaves that room from the operands on. Where an operand begins is a
recursive function of the operands;
`OperandAtEquation` shows that its equation has a solution.

`FlagProofs` proves, for any registers, cached values, instructions and bounds:

| theorem | states |
|---|---|
| `OperandsSurvive` | `Spec => []PendingOperandsSurvive` |
| `ValuesCurrent` | `Spec => []ValueLocalsCurrent` |
| `OwnershipHolds` | `Spec => []OwnershipExact` |
| `MemoryShowsFlags` | `Spec => []MemoryShowsFlagsAtExits` |
| `ConditionsAnswered` | `Spec => []UncomparedConditions` |
| `FlagsTyped` | `Arithmetic => (Spec => []TypeOK)` |
| `WordExact` | `Arithmetic => (Spec => []WordIsArchitectural)` |
| `ConditionsRight` | `Arithmetic => (Spec => []ConditionsAgree)` |

`PendingOperandsSurvive` is not inductive alone. A release gives a local back when
its count of owners reaches zero, so one has to know that the counts are right:
`Holding` says that each local's count is the number of handles on it, those of
pending producers and those of registers, that a producer is released exactly when
no flag refers to it, and that an owned local still holds what each holder
captured. The counting itself is done with the cardinalities of the sets of
handles. `Showing` says that the source of every flag gives the flag of the word
and that a flags local without a pending store agrees with memory;
`PendingSpeculative` that the mask a boundary is planned with covers every flag
that still waits. `UncomparedConditions` is `ConditionsAgree` against `word`, for
every answer but the comparison of a subtraction's operands.

The last three theorems speak of values, and the provers have neither powers of two
nor the bitwise operators. They take four facts of arithmetic as their premise,
`Arithmetic` in `FlagState`: the widths divide one another, an i32 operation yields
an i32 value, the flag expressions of `flags.ts` are the flags of integer arithmetic
for one instruction (`FlagsExact`), and comparing the operands of one subtraction
answers what its flags answer (`ComparesExact`). All four are about operators, not
states; TLC evaluates them for every operand at the widths of the run
(`ArithmeticAssumption` of `MCFlagState`). What the theorems add is that nothing
the emitter does in between loses this: `ValuesInv` says that the word stays the
architectural one and that a subtraction that is still pending waits with two
operands of its width and their difference. With `PendingOperandsSurvive` the
operands a condition compares are then those the subtraction was executed with.
`CountsInv` bounds producers and copies, and with the counts of `Holding` the
owners of a local.

The ASSUMEs of all modules are evaluated by TLC in the runs of the same names.

Only model-checked:

- Liveness, `RunReturns`: it rests on fairness and ENABLED.
- `Arithmetic`, the premise of three theorems about flags: it depends on powers of
  two and bitwise operators.
- `FormsDispatchable`: a fact about the table of forms, which the run takes from
  the repository.
- Everything about `JitOptimizer`, `IrExpressions`, `GeneratedCode` and `JitPipeline`.
  These use recursive operators over operations and values, which the prover does
  not accept.


## Mutants

Beside several definitions stands a faulty variant named for its fault
(`UnregisterNothing`, `ExecutedAbsolute`, `ExpiredAtFirstUse`,
`push32MovedFirst`, ...). Each
replaces its original in one run, and the property it is aimed at is then
violated. No specification uses them otherwise.

## Not modelled, and the plan

`PROJECT.json` lists every component with its status. Left out for good:

- *Wasm encoder*: the byte encoding of modules, label depths and the pool of
  scratch locals inside one function; nothing of it survives generation.
- *Feature probes, artifact files, formatting, mnemonics, statistics of passes*:
  no state that a property speaks of.
- *Host memories and layout*: offsets and views; the bytes they hold are the state
  of `Runtime`. The bounds test inside one generated access is modelled by what
  it does, a fault at its address.
- *Handles of several blocks* exist in tests only. A *module cache shared by two
  instances* is listed as a hazard only.

Modelled in part:

- *Value cache* (`plan/value-cache.ts`) chooses which values get a local by counting
  uses. `FlagState` leaves the choice open: any value of `Selected` may be kept,
  used or dropped at any time. That covers what the choice may do to correctness,
  and nothing of whether it is a good one.
- *Codegen plan*: which registers and flags an exit stores is in `RegisterState` and
  `FlagState`, each for itself; their product is larger than TLC can do.
- *Direct backend*: its operations are what a block means; its loop is that of
  `GuestMachine`.

What is left, in order:

1. The refinement of `GuestMachine` with stores, for a cache that is told of them: what
   `clearCompiledBlocks` would have to do.
2. Lemmas about the parts of `JitIr` and `JitOptimizer` that are not recursive
   (effects, barriers, the joins of the dataflow facts).

