----------------------------- MODULE JitPipeline -----------------------------
(***************************************************************************)
(* From instructions to an optimised block: the block is built instruction *)
(* by instruction, then jitIrOptimizationPasses runs over it in its order, *)
(* then the validator looks at the result.  source keeps the block as it   *)
(* was built: what the optimised block must still do.                      *)
(***************************************************************************)
EXTENDS JitOptimizer, GeneratedCode

CONSTANTS Profiles,   \* which blocks are built: names to [length, body, exits]
          Starts      \* machine states a block is started in: [regs, word, mem]

VARIABLES profile,    \* the block's profile
          source,     \* the block as built
          block,      \* the block as the passes have left it
          stage       \* 0 while building, then the index of the next step

vars == <<profile, source, block, stage>>

jitIrOptimizationPasses ==
    <<"localDce", "flagConditionSpecialization", "flagDce", "localDce",
      "registerValuePropagation", "localDce">>

Building   == 0
Validating == Len(jitIrOptimizationPasses) + 1
Done       == Validating + 1

Init ==
    /\ profile \in DOMAIN Profiles
    /\ source = <<>>
    /\ block = <<>>
    /\ stage = Building

AppendInstruction ==
    /\ stage = Building
    /\ Len(source) < Profiles[profile].length
    /\ \E ops \in Profiles[profile].body : source' = Append(source, ops)
    /\ UNCHANGED <<profile, block, stage>>

\* The last instruction: control transfer, or the block is long enough.
FinishBlock ==
    /\ stage = Building
    /\ \E ops \in Profiles[profile].exits : source' = Append(source, ops)
    /\ block' = source'
    /\ stage' = 1
    /\ UNCHANGED profile

\* One pass of the pipeline: its turn, and the block it leaves.
Pass(name, result) ==
    /\ stage \in DOMAIN jitIrOptimizationPasses
    /\ jitIrOptimizationPasses[stage] = name
    /\ block' = result
    /\ stage' = stage + 1
    /\ UNCHANGED <<profile, source>>

LocalDce == Pass("localDce", localDce(block))
SpecializeConditions == Pass("flagConditionSpecialization", flagConditionSpecialization(block))
FlagDce == Pass("flagDce", flagDce(block))
PropagateRegisterValues == Pass("registerValuePropagation", registerValuePropagation(block))

\* The validator throws on a malformed block; only a valid one is used.
Validate ==
    /\ stage = Validating
    /\ validateJitIrBlock(block)
    /\ stage' = Done
    /\ UNCHANGED <<profile, source, block>>

Next ==
    \/ AppendInstruction
    \/ FinishBlock
    \/ LocalDce
    \/ SpecializeConditions
    \/ FlagDce
    \/ PropagateRegisterValues
    \/ Validate

Spec == Init /\ [][Next]_vars

-----------------------------------------------------------------------------

SameMeaning(before, after) ==
    \A start \in Starts : Execute(after, start) = Execute(before, start)

\* No pass hands the next one, or the code generator, a block the validator
\* would reject: one terminator at the end, every variable assigned before
\* its uses, flag operations with the inputs their producer names, and flag
\* conditions read only as conditions.
ValidAfterEveryPass == validateJitIrBlock(block)

\* An optimised block publishes what the instructions it was built from
\* publish: the same registers and flags at each access that may fault, the
\* same exit, and there the same registers, flags and memory.  Deferred
\* register writes, removed flag writes and conditions tested on operands
\* never show.
PublishedStatePreserved == stage = Done => SameMeaning(source, block)

\* Where a value ends up: at its operation, or where the value it moves into does.
RECURSIVE Place(_, _)
Place(ops, j) ==
    LET users == {k \in DOMAIN ops : UsesOf(ops[k], ops[j].dst) > 0}
    IN  IF ops[j].op \in HasResult /\ users # {} /\ Moves("jit", ops, j)
        THEN Place(ops, Max(users)) ELSE j

\* No read ends up behind a write that may change what it reads.
ReadsInPlace(ops) ==
    \A j \in DOMAIN ops : ops[j].op = "get" =>
      \A k \in j + 1 .. Place(ops, j) - 1 : \A write \in Writes(ops[k]) :
        ~storageMayAlias("jit", write, ops[j].source)

\* The code generated for an optimised block does what the block does:
\* values moved to their use past a write, variables that share a slot, bits
\* above an operand's width left to whoever needs them - none of it shows.
GeneratedCodeExact ==
    stage = Done => \A start \in Starts : RunGenerated("jit", block, start) = Execute(block, start)

\* It does where no read has moved behind a write that may change what it
\* reads: the rest of the generator - slots, widths, faults - keeps the
\* block's meaning.
InPlaceCodeExact ==
    stage = Done /\ (\A i \in DOMAIN block : ReadsInPlace(block[i])) =>
      \A start \in Starts : RunGenerated("jit", block, start) = Execute(block, start)

\* The interpreter's handlers do what the instructions do, though each is
\* generated once for all the registers its bytes may name, with the addresses
\* taken before the instruction and registers and flags changed in place.
InterpreterExact ==
    stage = Done =>
      \A start \in Starts : RunGenerated("interpreter", source, start) = Execute(source, start)

\* A fault leaves the registers and flags of the instruction's start even
\* where nothing keeps them: every template of these blocks reaches memory
\* before it changes a register or a flag.
FaultsArePrecise ==
    stage = Done => \A start \in Starts : RunDirect(source, start) = Execute(source, start)

\* Removing dead variables and dead flag writes changes nothing anybody sees,
\* whatever the passes before have made of the block: no access that may
\* fault is dropped, and no flags an exit or a fault would show.
CleanupPreservesMeaning ==
    [][\A pass \in DOMAIN jitIrOptimizationPasses :
         /\ stage = pass
         /\ jitIrOptimizationPasses[pass] \in {"localDce", "flagDce"}
         => SameMeaning(block, block')]_vars
=============================================================================
