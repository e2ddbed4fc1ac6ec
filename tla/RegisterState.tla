--------------------------- MODULE RegisterState ---------------------------
(***************************************************************************)
(* The register state of the JIT code generator                            *)
(* (src/backends/wasm/jit/state/register-*.ts), driven the way one block's *)
(* emission drives it (jit/codegen/emit, jit/codegen/plan).                *)
(*                                                                         *)
(* While a block is emitted, the compiler records where the current value  *)
(* of each guest register lives: in the CPU state in memory, in a wasm     *)
(* local known to hold its low 8, 16 or 32 bits (a prefix), or in a        *)
(* mutable cell, a local that later writes update in place.  A write goes  *)
(* to the committed layer, or to the pending one while the instruction can *)
(* still fault.  The model runs the compiler and the code it emits side by *)
(* side: the emitter record is the compiler's knowledge together with the  *)
(* contents of the emitted locals on the path the machine takes.           *)
(*                                                                         *)
(* Abstraction.  A register is three segments, bits 0-7, 8-15 and 16-31,   *)
(* and an alias or a prefix is the set of segments it covers.  A value     *)
(* gives each segment a token that names the write it comes from.          *)
(***************************************************************************)
EXTENDS Integers, Sequences

CONSTANTS
    Regs,               \* the 32-bit registers the block uses
    Shapes,             \* the blocks that are compiled, see below
    MaxOps,             \* bound on the register writes of the block
    ZeroToken,          \* what a wasm local holds before it is set
    WrongToken          \* a value computed from a read that was wrong

AL == {"low"}
AH == {"high"}
AX == {"low", "high"}
EAX == {"low", "high", "upper"}
Segments == EAX

\* What the instructions of a block may do.  aliases: the register aliases
\* they name; selfReads: <<target, read>>, a write of target whose inlined
\* value reads an alias of the same register; earlyWrites: the aliases written
\* before their instruction's last memory access (pending writes); setIf:
\* those they write conditionally (cmovcc); branches: whether the block may
\* end in a conditional jump; faults: the most accesses of an instruction.
ASSUME SegmentAssumption ==
    /\ MaxOps \in Nat
    /\ \A s \in Shapes :
        /\ s.aliases \subseteq {AL, AH, AX, EAX}
        /\ s.selfReads \subseteq s.aliases \X s.aliases
        /\ s.earlyWrites \subseteq s.aliases
        /\ s.setIf \subseteq s.aliases
        /\ s.branches \in BOOLEAN
        /\ s.faults \in Nat

VARIABLES
    block,        \* the shape of the block that is compiled
    emitter,      \* what the compiler knows, and what its locals hold
    memory,       \* the registers in the CPU state
    arch,         \* the registers as the guest program defines them
    archBefore,   \* ... at the start of the current instruction
    dirty,        \* JitBlockStateTracker.committedRegs
    speculative,  \* JitBlockStateTracker.speculativeRegs
    faultsLeft,   \* pre-instruction exit points still to be emitted
    phase,        \* "between" instructions, "in" one, or "done"
    written       \* register writes so far: the newest token

vars == <<block, emitter, memory, arch, archBefore, dirty, speculative, faultsLeft,
          phase, written>>

(***************************************************************************)
(* Values, locals and prefixes.                                            *)
(***************************************************************************)
Tokens == Regs \cup (1 .. MaxOps) \cup {ZeroToken, WrongToken}
Values == [Segments -> Tokens]

Fill(token) == [s \in Segments |-> token]

\* The value that has the segments of cover from over, the others from base.
Overlay(base, over, cover) ==
    [s \in Segments |-> IF s \in cover THEN over[s] ELSE base[s]]

Agree(v, w, alias) == \A s \in alias : v[s] = w[s]

NoLocal == <<>>
Absent == [present |-> FALSE, covers |-> {}, local |-> NoLocal]
Unknown == [present |-> TRUE, covers |-> {}, local |-> NoLocal]
Prefix(local, alias) == [present |-> TRUE, covers |-> alias, local |-> local]

At(e, local) == e.locals[local[1]][local[2]]
AddLocal(e, r, value) == [e EXCEPT !.locals[r] = Append(@, value)]
Newest(e, r) == <<r, Len(e.locals[r])>>
SetLocal(e, local, value) == [e EXCEPT !.locals[local[1]][local[2]] = value]

\* The value of base once a prefix is merged in; a full prefix, and one that
\* is the base itself, leave the base alone.
Merged(e, base, prefix, baseLocal) ==
    IF prefix.covers \in {{}, EAX} \/ prefix.local = baseLocal
    THEN base
    ELSE Overlay(base, At(e, prefix.local), prefix.covers)

CommittedFull(e, r) ==
    IF e.cell[r] # NoLocal
    THEN Merged(e, At(e, e.cell[r]), e.committed[r], e.cell[r])
    ELSE IF e.committed[r].covers = EAX
    THEN At(e, e.committed[r].local)
    ELSE Merged(e, memory[r], e.committed[r], NoLocal)

CurrentFull(e, r) ==
    IF e.pendingCell[r] # NoLocal
    THEN Merged(e, At(e, e.pendingCell[r]), e.pending[r], e.pendingCell[r])
    ELSE IF e.pending[r].covers = EAX
    THEN At(e, e.pending[r].local)
    ELSE Merged(e, CommittedFull(e, r), e.pending[r], NoLocal)

(***************************************************************************)
(* What the storage answers (register-storage.ts).                         *)
(***************************************************************************)
Overlaps(prefix, alias) == prefix.covers \cap alias # {}

\* The prefix that holds the whole alias, or Unknown.
CurrentSource(e, r, alias) ==
    LET Select(prefix) == IF alias \subseteq prefix.covers THEN prefix ELSE Unknown
        hides == e.pending[r].present
                   /\ (Overlaps(e.pending[r], alias) \/ e.pendingCell[r] # NoLocal)
    IN  IF hides THEN Select(e.pending[r]) ELSE Select(e.committed[r])

CanLoadFromState(e, r, alias) ==
    /\ e.pending[r].present => /\ ~Overlaps(e.pending[r], alias)
                               /\ e.pendingCell[r] = NoLocal
    /\ ~Overlaps(e.committed[r], alias)
    /\ e.cell[r] = NoLocal

UsesMutableCell(e, r) ==
    \/ e.pendingCell[r] # NoLocal
    \/ e.cell[r] # NoLocal /\ (e.pending[r].present => e.pending[r].covers # EAX)

\* Mutant: a prefix known on top of a cell is forgotten.
UncoveredCellAny(e, r) ==
    IF e.pendingCell[r] # NoLocal THEN e.pendingCell[r] ELSE e.cell[r]

\* The cell that alone holds the register's current value, or NoLocal.
UncoveredCell(e, r) ==
    IF e.pending[r].covers # {} THEN NoLocal
    ELSE IF e.pendingCell[r] # NoLocal THEN e.pendingCell[r]
    ELSE IF e.committed[r].covers = {} THEN e.cell[r]
    ELSE NoLocal

KnownPrefixForReg(e, r) ==
    IF e.pending[r].covers # {} \/ (e.pending[r].present /\ e.pendingCell[r] # NoLocal)
    THEN e.pending[r]
    ELSE e.committed[r]

(***************************************************************************)
(* The writable layer: pending while the instruction can fault.            *)
(***************************************************************************)
\* Mutant: writes go to the committed layer although a fault can follow.
PreserveNever == FALSE

PreserveCommitted == faultsLeft > 0

Record(e, r, prefix, inPending) ==
    IF inPending THEN [e EXCEPT !.pending[r] = prefix]
                 ELSE [e EXCEPT !.committed[r] = prefix]

\* writableStateForReg creates the entry it returns.
Touch(e, r) ==
    IF PreserveCommitted /\ ~e.pending[r].present THEN Record(e, r, Unknown, TRUE)
    ELSE IF ~PreserveCommitted /\ ~e.committed[r].present THEN Record(e, r, Unknown, FALSE)
    ELSE e

WritableCell(e, r) == IF PreserveCommitted THEN e.pendingCell[r] ELSE e.cell[r]
WritableState(e, r) == IF PreserveCommitted THEN e.pending[r] ELSE e.committed[r]

SetCell(e, r, local, inPending) ==
    IF inPending THEN [e EXCEPT !.pendingCell[r] = local]
                 ELSE [e EXCEPT !.cell[r] = local]

(***************************************************************************)
(* Materialization and reads (register-materialization.ts,                 *)
(* register-read.ts).                                                      *)
(***************************************************************************)
RecordCurrentFull(e, r, local) ==
    LET inPending == e.pending[r].present \/ e.pendingCell[r] # NoLocal
    IN  SetCell(Record(e, r, Prefix(local, EAX), inPending), r, NoLocal, inPending)

\* Copies the current value to a local of its own, and records it.
CopyOut(e, r) ==
    LET copied == AddLocal(e, r, CurrentFull(e, r))
        local == Newest(copied, r)
    IN  [to |-> RecordCurrentFull(copied, r, local), local |-> local]

MaterializeCurrentFull(e, r) ==
    LET source == CurrentSource(e, r, EAX)
    IN  IF source.covers # {} THEN [to |-> e, local |-> source.local]
        ELSE IF UncoveredCell(e, r) # NoLocal
        THEN [to |-> e, local |-> UncoveredCell(e, r)]
        ELSE CopyOut(e, r)

\* Mutant: a copy shares the cell itself.
StableCopyIsCell(e, r) == MaterializeCurrentFull(e, r)

EnsureStableFullValueForCopy(e, r) ==
    LET source == CurrentSource(e, r, EAX)
    IN  IF source.covers # {} THEN [to |-> e, local |-> source.local]
        ELSE IF UsesMutableCell(e, r) THEN CopyOut(e, r)
        ELSE MaterializeCurrentFull(e, r)

\* The emitter after it emits a read of an alias, and what the read yields.
ReadAlias(e, r, alias) ==
    LET source == CurrentSource(e, r, alias)
        full == MaterializeCurrentFull(e, r)
    IN  IF source.covers # {} THEN [to |-> e, value |-> At(e, source.local)]
        ELSE IF alias # EAX /\ CanLoadFromState(e, r, alias)
        THEN [to |-> e, value |-> memory[r]]
        ELSE [to |-> full.to, value |-> At(full.to, full.local)]

(***************************************************************************)
(* Writes (register-write.ts).                                             *)
(***************************************************************************)
EnsureMutableCell(e, r) ==
    LET touched == Touch(e, r)
        cell == WritableCell(e, r)
        refreshed == SetLocal(touched, cell, CurrentFull(touched, r))
        detached == AddLocal(touched, r, CurrentFull(touched, r))
    IN  IF cell = NoLocal
        THEN SetCell(Record(detached, r, Unknown, PreserveCommitted),
                     r, Newest(detached, r), PreserveCommitted)
        ELSE IF WritableState(touched, r).covers # {}
        THEN Record(refreshed, r, Unknown, PreserveCommitted)
        ELSE touched

\* Emits the written value: a fresh one, computed from at most one inlined
\* read of the same register.
EmitValue(e, r, read) ==
    IF read = {} THEN [to |-> e, token |-> written + 1]
    ELSE LET got == ReadAlias(e, r, read)
         IN  [to |-> got.to,
              token |-> IF Agree(got.value, arch[r], read) THEN written + 1
                        ELSE WrongToken]

WriteFull(e, r, read) ==
    LET cleared == SetCell(Touch(e, r), r, NoLocal, PreserveCommitted)
        emitted == EmitValue(cleared, r, read)
        stored == AddLocal(emitted.to, r, Fill(emitted.token))
    IN  Record(stored, r, Prefix(Newest(stored, r), EAX), PreserveCommitted)

\* Mutant: bits 8-15 recorded as a prefix, which starts at bit 0.
WriteHighAsPrefix(e, r, alias, read) ==
    LET emitted == EmitValue(Touch(e, r), r, read)
        alone == AddLocal(emitted.to, r, Fill(emitted.token))
    IN  Record(alone, r, Prefix(Newest(alone, r), alias), PreserveCommitted)

WriteHigh(e, r, alias, read) ==
    LET ready == EnsureMutableCell(e, r)
        emitted == EmitValue(ready, r, read)
        cell == WritableCell(ready, r)
        stored == SetLocal(emitted.to, cell,
                    Overlay(At(emitted.to, cell), Fill(emitted.token), alias))
    IN  Record(stored, r, Unknown, PreserveCommitted)

\* A write of the low bits joins the wider prefix that was known before the
\* value was emitted, if there was one.
WriteLow(e, r, alias, read) ==
    LET known == KnownPrefixForReg(e, r)
        emitted == EmitValue(Touch(e, r), r, read)
        token == Fill(emitted.token)
        alone == AddLocal(emitted.to, r, Overlay(Fill(ZeroToken), token, alias))
        composed == AddLocal(emitted.to, r,
                      Overlay(At(emitted.to, known.local), token, alias))
        joins == alias \subseteq known.covers /\ alias # known.covers
        joined == Record(composed, r, Prefix(Newest(composed, r), known.covers),
                         PreserveCommitted)
    IN  IF ~joins THEN Record(alone, r, Prefix(Newest(alone, r), alias), PreserveCommitted)
        ELSE IF known.covers = EAX THEN SetCell(joined, r, NoLocal, PreserveCommitted)
        ELSE joined

EmitWriteAlias(e, r, alias, read) ==
    IF alias = EAX THEN WriteFull(e, r, read)
    ELSE IF "low" \in alias THEN WriteLow(e, r, alias, read)
    ELSE WriteHigh(e, r, alias, read)

\* emitWriteAliasIf: the cell is brought up to date whatever the condition,
\* and updated in place when it holds.
EmitWriteAliasIf(e, r, alias, holds) ==
    LET ready == EnsureMutableCell(e, r)
        cell == WritableCell(ready, r)
    IN  IF holds
        THEN SetLocal(ready, cell, Overlay(At(ready, cell), Fill(written + 1), alias))
        ELSE ready

\* A full-width write whose value is another register's: both registers share
\* the local of a stable copy.
EmitCopy(e, dst, src) ==
    LET stable == EnsureStableFullValueForCopy(e, src)
        cleared == SetCell(Touch(stable.to, dst), dst, NoLocal, PreserveCommitted)
    IN  Record(cleared, dst, Prefix(stable.local, EAX), PreserveCommitted)

(***************************************************************************)
(* Commit and capture (register-storage.ts, register-state.ts).            *)
(***************************************************************************)
\* The registers of regs that have something to commit.
Staged(e, regs) == {r \in regs : e.pending[r].present \/ e.pendingCell[r] # NoLocal}

\* Mutant: a pending cell is committed and stays pending.
CommitKeepsPendingCell(e, regs) ==
    LET moved == Staged(e, regs)
    IN  [e EXCEPT
          !.committed = [r \in Regs |-> IF r \in moved THEN e.pending[r] ELSE @[r]],
          !.cell = [r \in Regs |-> IF r \in moved THEN e.pendingCell[r] ELSE @[r]],
          !.pending = [r \in Regs |-> IF r \in moved THEN Absent ELSE @[r]]]

CommitPending(e, regs) ==
    LET moved == Staged(e, regs)
        target == [r \in Regs |->
                     IF r \notin moved THEN e.committed[r]
                     ELSE IF e.pending[r].present THEN e.pending[r] ELSE Unknown]
    IN  [e EXCEPT
          !.committed = target,
          !.cell = [r \in Regs |->
                      IF r \notin moved THEN @[r]
                      ELSE IF e.pendingCell[r] # NoLocal THEN e.pendingCell[r]
                      ELSE IF target[r].covers = EAX THEN NoLocal ELSE @[r]],
          !.pending = [r \in Regs |-> IF r \in moved THEN Absent ELSE @[r]],
          !.pendingCell = [r \in Regs |-> IF r \in moved THEN NoLocal ELSE @[r]]]

\* Mutant: a capture leaves the value of a cell out.
CaptureWithoutFreeze(e, regs, live) == e

\* captureCommittedExitStores freezes the cells of the captured registers.
\* The copies run only where control reaches them (live); the compiler
\* records them either way.
Capture(e, regs, live) ==
    LET frozen == {r \in regs : e.cell[r] # NoLocal}
    IN  [e EXCEPT
          !.locals = [r \in Regs |->
                        IF r \notin frozen THEN @[r]
                        ELSE Append(@[r], IF live THEN CommittedFull(e, r)
                                          ELSE Fill(ZeroToken))],
          !.committed = [r \in Regs |->
                           IF r \notin frozen THEN @[r]
                           ELSE Prefix(<<r, Len(e.locals[r]) + 1>>, EAX)],
          !.cell = [r \in Regs |-> IF r \in frozen THEN NoLocal ELSE @[r]]]

\* emitExitSnapshotStore: each captured register's prefix goes to the state.
Stored(e, regs) ==
    [r \in Regs |->
        IF r \in regs /\ e.committed[r].covers # {}
        THEN Overlay(memory[r], At(e, e.committed[r].local), e.committed[r].covers)
        ELSE memory[r]]

(***************************************************************************)
(* The block: instructions emitted in order, and run as they are emitted.  *)
(***************************************************************************)
Init ==
    /\ block \in Shapes
    /\ emitter = [committed |-> [r \in Regs |-> Absent],
                  pending |-> [r \in Regs |-> Absent],
                  cell |-> [r \in Regs |-> NoLocal],
                  pendingCell |-> [r \in Regs |-> NoLocal],
                  locals |-> [r \in Regs |-> <<>>]]
    /\ memory = [r \in Regs |-> Fill(r)]
    /\ arch = memory
    /\ archBefore = memory
    /\ dirty = {} /\ speculative = {}
    /\ faultsLeft = 0
    /\ phase = "between"
    /\ written = 0

BeginInstruction(faults) ==
    /\ phase = "between"
    /\ written < MaxOps
    /\ phase' = "in"
    /\ faultsLeft' = faults
    /\ UNCHANGED <<emitter, memory, arch, archBefore, dirty, speculative, written>>

Read(r, alias) ==
    /\ phase = "in"
    /\ emitter' = ReadAlias(emitter, r, alias).to
    /\ UNCHANGED <<memory, arch, archBefore, dirty, speculative, faultsLeft,
                   phase, written>>

\* What every write to a register does besides emitting its code.
Assign(r, value) ==
    /\ phase = "in"
    /\ written < MaxOps
    /\ written' = written + 1
    /\ arch' = [arch EXCEPT ![r] = value]
    /\ speculative' = speculative \cup {r}
    /\ UNCHANGED <<memory, archBefore, dirty, faultsLeft, phase>>

Write(r, alias, read) ==
    /\ PreserveCommitted => alias \in block.earlyWrites
    /\ emitter' = EmitWriteAlias(emitter, r, alias, read)
    /\ Assign(r, Overlay(arch[r], Fill(written + 1), alias))

WriteIf(r, alias, holds) ==
    /\ alias \in block.setIf
    /\ emitter' = EmitWriteAliasIf(emitter, r, alias, holds)
    /\ Assign(r, IF holds THEN Overlay(arch[r], Fill(written + 1), alias)
                 ELSE arch[r])

Copy(dst, src) ==
    /\ PreserveCommitted => EAX \in block.earlyWrites
    /\ emitter' = EmitCopy(emitter, dst, src)
    /\ Assign(dst, arch[src])

\* A register materialization: the optimizer dropped an earlier instruction's
\* full write of r and now puts its value back, committed at once so that the
\* faults of this instruction see it.
MaterializeRegister(r) ==
    /\ phase = "in"
    /\ written < MaxOps
    /\ r \notin speculative
    /\ emitter' = CommitPending(WriteFull(emitter, r, {}), {r})
    /\ written' = written + 1
    /\ arch' = [arch EXCEPT ![r] = Fill(written + 1)]
    /\ archBefore' = [archBefore EXCEPT ![r] = Fill(written + 1)]
    /\ dirty' = dirty \cup {r}
    /\ UNCHANGED <<memory, speculative, faultsLeft, phase>>

\* Leaves the block through the captured exit of e: the machine then stands
\* in state architecture.
Exit(e, regs, architecture) ==
    /\ phase' = "done"
    /\ emitter' = e
    /\ memory' = Stored(e, regs)
    /\ arch' = architecture
    /\ archBefore' = architecture
    /\ faultsLeft' = 0
    /\ UNCHANGED <<dirty, speculative, written>>

\* A guest memory access that does not fault.  The last one of its
\* instruction commits the pending writes.
AccessMemory ==
    LET captured == Capture(emitter, dirty, TRUE)
    IN  /\ phase = "in"
        /\ faultsLeft > 0
        /\ faultsLeft' = faultsLeft - 1
        /\ emitter' = IF faultsLeft = 1 THEN CommitPending(captured, Regs) ELSE captured
        /\ UNCHANGED <<memory, arch, archBefore, dirty, speculative, phase, written>>

\* One that does: the instruction has no effect on the registers.
FaultInMemory ==
    /\ phase = "in"
    /\ faultsLeft > 0
    /\ Exit(Capture(emitter, dirty, TRUE), dirty, archBefore)

NextInstruction ==
    /\ phase = "in"
    /\ faultsLeft = 0
    /\ emitter' = CommitPending(emitter, Regs)
    /\ dirty' = dirty \cup speculative
    /\ speculative' = {}
    /\ archBefore' = arch
    /\ phase' = "between"
    /\ UNCHANGED <<memory, arch, faultsLeft, written>>

PostInstructionRegs == dirty \cup speculative

ExitBlock ==
    /\ phase = "in"
    /\ faultsLeft = 0
    /\ Exit(Capture(CommitPending(emitter, Regs), PostInstructionRegs, TRUE),
            PostInstructionRegs, arch)

\* emitJitConditionalJump emits the taken exit inside a wasm if, and the
\* other one after it: the machine runs the code of one of the two.
ConditionalExit(taken) ==
    LET inArm == Capture(CommitPending(emitter, Regs), PostInstructionRegs, taken)
        afterArm == Capture(CommitPending(inArm, Regs), PostInstructionRegs, TRUE)
    IN  /\ block.branches
        /\ phase = "in"
        /\ faultsLeft = 0
        /\ Exit(IF taken THEN inArm ELSE afterArm, PostInstructionRegs, arch)

Next ==
    /\ \/ \E faults \in 0 .. block.faults : BeginInstruction(faults)
       \/ \E r \in Regs, alias \in block.aliases : Read(r, alias)
       \/ \E r \in Regs, alias \in block.aliases : Write(r, alias, {})
       \/ \E r \in Regs, self \in block.selfReads : Write(r, self[1], self[2])
       \/ \E r \in Regs, alias \in block.aliases, holds \in BOOLEAN : WriteIf(r, alias, holds)
       \/ \E dst, src \in Regs : Copy(dst, src)
       \/ \E r \in Regs : MaterializeRegister(r)
       \/ AccessMemory
       \/ FaultInMemory
       \/ NextInstruction
       \/ ExitBlock
       \/ \E taken \in BOOLEAN : ConditionalExit(taken)
    /\ UNCHANGED block

Spec == Init /\ [][Next]_vars

(***************************************************************************)
(* Shapes that are translated right: the premises of the theorems.  The    *)
(* README tells what happens in the others.                                *)
(***************************************************************************)
\* Whether the blocks of a shape give registers cells.
HasCells(shape) == AH \in shape.aliases \/ shape.setIf # {}

\* A value that reads the register it is written to must not need a cell that
\* the write has dropped (register-write.ts, emitWriteAlias), and a low write
\* staged over a cell would lose the bits above it.
SafeShape(shape) ==
    HasCells(shape) =>
        /\ \A self \in shape.selfReads : self[1] = AH \/ (self[1] # EAX /\ self[2] = AL)
        /\ AL \notin shape.earlyWrites
        /\ AX \notin shape.earlyWrites

\* Where a conditional jump leaves a block, no register may be in a cell:
\* the copy that freezes it would be emitted in one arm only.
BranchSafe(shape) == shape.branches => ~HasCells(shape)

(***************************************************************************)
(* Properties.                                                             *)
(***************************************************************************)
Locals(e) == UNION {{<<r, n>> : n \in 1 .. Len(e.locals[r])} : r \in Regs}

Prefixes(e) == {Absent, Unknown}
                 \cup {Prefix(local, alias) : local \in Locals(e), alias \in {AL, AX, EAX}}

\* Every prefix and cell names a local that exists; values are tokens.
TypeOK ==
    /\ block \in Shapes
    /\ \A r \in Regs :
         /\ emitter.committed[r] \in Prefixes(emitter)
         /\ emitter.pending[r] \in Prefixes(emitter)
         /\ emitter.cell[r] \in Locals(emitter) \cup {NoLocal}
         /\ emitter.pendingCell[r] \in Locals(emitter) \cup {NoLocal}
         /\ \A n \in 1 .. Len(emitter.locals[r]) : emitter.locals[r][n] \in Values
    /\ {memory[r] : r \in Regs} \cup {arch[r] : r \in Regs}
         \cup {archBefore[r] : r \in Regs} \subseteq Values
    /\ dirty \subseteq Regs /\ speculative \subseteq Regs
    /\ faultsLeft \in 0 .. block.faults
    /\ phase \in {"between", "in", "done"}
    /\ written \in 0 .. MaxOps

\* Wherever a block may read a register alias, the code emitted for the read
\* yields what the guest program last wrote there (state/register-read.ts),
\* through every mix of alias writes, conditional writes, copies and faults.
ReadsArchitectural ==
    phase = "in" =>
        \A r \in Regs, alias \in {AL, AH, AX, EAX} :
            Agree(ReadAlias(emitter, r, alias).value, arch[r], alias)

\* While an instruction can still fault, storing the captured committed state
\* would put every register back to its value at the start of the instruction
\* (state/state.ts prepareExitPoint, register-state.ts
\* captureCommittedExitStores).
FaultRestoresInstructionStart ==
    phase = "in" /\ faultsLeft > 0 =>
        Stored(Capture(emitter, dirty, TRUE), dirty) = archBefore

\* Whichever exit a block takes, the CPU state it leaves in memory holds the
\* registers of the guest program (state/state.ts: "Deferred exit blocks store
\* this snapshot after later code may have run. Capture prefix locals at the
\* exit point.").
ExitStoresArchitectural == phase = "done" => memory = arch

\* The compiler never throws: no pending write survives its instruction
\* (assertNoPending), and every register an exit must store has a committed
\* state ("dirty JIT register has no committed state").
EmissionNeverThrows ==
    /\ phase = "between" =>
         \A r \in Regs : ~emitter.pending[r].present /\ emitter.pendingCell[r] = NoLocal
    /\ \A r \in dirty : emitter.committed[r].present \/ emitter.cell[r] # NoLocal

\* A local that a known prefix or a captured exit names is never one that a
\* later write updates in place: mutable cells are private to their register,
\* and a copy is taken before the value is shared
\* (register-materialization.ts ensureStableFullValueForCopy).
CellsArePrivate ==
    \A r, q \in Regs :
        \A cell \in {emitter.cell[r], emitter.pendingCell[r]} \ {NoLocal} :
            /\ emitter.committed[q].local # cell
            /\ emitter.pending[q].local # cell
            /\ r # q => cell \notin {emitter.cell[q], emitter.pendingCell[q]}

=============================================================================
