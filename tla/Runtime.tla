------------------------------ MODULE Runtime ------------------------------
(***************************************************************************)
(* RuntimeInstance.run: the host's run loop, its instruction budget, and   *)
(* the two engines it drives.  The interpreter is one WebAssembly function *)
(* that executes up to a given number of instructions straight from guest  *)
(* memory; the compiled-blocks engine asks the block cache for the block   *)
(* at the instruction pointer and runs it together with every block it is  *)
(* linked to, until one of them exits.                                     *)
(*                                                                         *)
(* The CPU state that host and engines share is in a memory (`state').     *)
(* While an engine runs, the live pointer and counter are its own (`cpu'); *)
(* they reach `state' when it exits or, between linked blocks, before the  *)
(* tail call.  One action is one guest instruction or one host decision.   *)
(*                                                                         *)
(* The cache is BlockCache with decoded blocks as contents; it is changed  *)
(* by that module's actions only.                                          *)
(***************************************************************************)
EXTENDS Naturals, Sequences

CONSTANTS
    Address, Wrap,   \* as in GuestMachine
    Loaded,          \* addresses inside the regions of the code map
    MaxBlock,        \* most instructions of a compiled block (1024)
    MaxRan,          \* bound of the history variable ran
    Setups,          \* the runtimes, and what their embedder does with them
    Handle, None, Stub, Threw      \* as in BlockCache

\* compiled: the runtime's mode, compiled blocks or interpreter; clears: the
\* embedder clears the cache before it runs new code; images: what guest
\* memory may hold; counts: the instruction counters a run can begin at;
\* limits: the values of maxInstructions.
ASSUME RuntimeAssumption ==
    /\ Wrap \in Nat \ {0} /\ MaxBlock \in Nat \ {0}
    /\ MaxRan \in Nat /\ Wrap <= MaxRan
    /\ Loaded \subseteq Address
    /\ \A s \in Setups :
        /\ s.compiled \in BOOLEAN /\ s.clears \in BOOLEAN
        /\ s.limits \subseteq 0 .. MaxRan - 1
        /\ s.counts \subseteq 0 .. Wrap - 1

Image == UNION {s.images : s \in Setups}

VARIABLES
    setup,     \* the runtime at hand
    image,     \* guest memory
    state,     \* state memory: eip, instructionCount and stopReason
    phase,     \* who runs: see TypeOK
    budget,    \* base count and limit of this run
    previous,  \* previousInstructionCount of the run loop
    cpu,       \* eip and instruction count of the engine that runs
    fuel,      \* instructions the interpreter may still execute
    fn, pos,   \* the block function that runs and its next instruction
    result,    \* why the last run returned, or "running"
    ran,       \* history: instructions of this run, up to MaxRan
    blocks, body, targets, slot, dependents, answer, written   \* BlockCache

cache == <<blocks, body, targets, slot, dependents, answer, written>>
engine == <<cpu, fuel, fn, pos>>
host == <<budget, previous>>
vars == <<setup, image, state, phase, host, engine, result, ran, cache>>

-----------------------------------------------------------------------------
\* Decoding.

Straight == {"plain", "memory", "store"}

Ended(why, a) == [path |-> <<>>, end |-> why, next |-> a]

\* The block at a, given the blocks that may take one instruction less.
BlockAt(m, a, rest) ==
    LET one == <<[at |-> a, do |-> m[a]]>>
    IN  IF a \notin Loaded \/ m[a].op = "unreadable" THEN Ended("decodeFault", a)
        ELSE IF m[a].op = "unsupported" THEN Ended("unsupported", a)
        ELSE IF m[a].op \in Straight
        THEN [rest[m[a].next] EXCEPT !.path = one \o @]
        ELSE [path |-> one, end |-> "control", next |-> m[a].next]

\* The blocks of at most k instructions, for every k and at every address.
BlocksWithin(m) ==
    LET within[k \in 0 .. MaxBlock] ==
            IF k = 0 THEN [a \in Address |-> Ended("fallthrough", a)]
            ELSE [a \in Address |-> BlockAt(m, a, within[k - 1])]
    IN  within

\* The block decoded at e: its instructions, how it ends and what follows.
Block(m, e) == BlocksWithin(m)[MaxBlock][e]

Blocks == [m \in Image |-> [e \in Address |-> Block(m, e)]]

Content == UNION {{Blocks[m][e] : e \in Address} : m \in Image}

ASSUME DistinctAssumption ==
    /\ None \notin Handle \cup Content \cup {Stub, Threw}
    /\ Stub \notin Handle \cup Content
    /\ Threw \notin Handle

Kind(b) ==
    CASE b.end = "decodeFault" -> "fault"
      [] b.end # "decodeFault" /\ b.path = <<>> -> "empty"
      [] OTHER -> "block"

\* A block cut short continues at the next instruction; otherwise its last
\* instruction tells.  A computed target is no link.
StaticTargets(b) ==
    IF b.end # "control" THEN {b.next}
    ELSE LET i == b.path[Len(b.path)].do
         IN  CASE i.op \in {"jump", "call"} -> {i.target}
               [] i.op = "branch" -> {i.target, i.next}
               [] OTHER           -> {}

Decode == [b \in Content |-> [kind |-> Kind(b), targets |-> StaticTargets(b)]]

Cache == INSTANCE BlockCache WITH
            Eip <- Address, Code <- Content,
            Images <- {Blocks[m] : m \in Image}, code <- Blocks[image]

Machine == INSTANCE GuestMachine WITH
            eip <- IF phase \in {"interpreter", "block"} THEN cpu.eip ELSE state.eip,
            count <- IF phase \in {"interpreter", "block"} THEN cpu.count ELSE state.count,
            outcome <- result

ASSUME ImageAssumption == Image \subseteq [Address -> Machine!Instruction]

-----------------------------------------------------------------------------
Limits == UNION {s.limits : s \in Setups}

Cpu == [eip : Address, count : 0 .. Wrap - 1]

Stops == {"none", "limit", "trap", "unsupported", "decodeFault", "memoryFault"}

TypeOK ==
    /\ setup \in Setups
    /\ image \in setup.images
    /\ state \in [eip : Address, count : 0 .. Wrap - 1, stop : Stops]
    /\ phase \in {"idle", "loop", "returned", "interpreter", "block"}
    /\ budget \in [base : 0 .. Wrap - 1, limit : setup.limits \cup {0}]
    /\ previous \in 0 .. Wrap - 1
    /\ cpu \in Cpu
    /\ fuel \in 0 .. Wrap - 1
    /\ fn \in Handle \cup {None}
    /\ pos \in 1 .. MaxBlock
    /\ result \in {"running", "threw"} \cup Stops
    /\ ran \in 0 .. MaxRan
    /\ phase = "block" => fn # None /\ pos <= Len(body[fn].path)
    /\ Cache!TypeOK

Init ==
    /\ setup \in Setups
    /\ image \in setup.images
    /\ \E e \in Address, n \in setup.counts :
        /\ state = [eip |-> e, count |-> n, stop |-> "none"]
        /\ cpu = [eip |-> e, count |-> n]
        /\ budget = [base |-> n, limit |-> 0]
        /\ previous = n
    /\ phase = "idle" /\ result = "none"
    /\ fuel = 0 /\ fn = None /\ pos = 1 /\ ran = 0
    /\ Cache!Init

-----------------------------------------------------------------------------
\* Faults: the counter is compared without the base; one instruction too many.
ExecutedAbsolute(n) == n

RemainingInclusive(n) == IF n <= budget.base THEN budget.limit + 1
                         ELSE budget.base + budget.limit + 1 - n

\* The budget counts from the counter at the start of the run.  A counter
\* that wrapped below the base counts as nothing executed.
Executed(n) == IF n > budget.base THEN n - budget.base ELSE 0

Remaining(n) == IF Executed(n) < budget.limit THEN budget.limit - Executed(n) ELSE 0

Ran == IF ran = MaxRan THEN ran ELSE ran + 1

NoEngine(c) == cpu' = c /\ fuel' = 0 /\ fn' = None /\ pos' = 1

\* An engine's exit becomes a result: the live state is stored with the stop
\* reason, and any reason but "none" ends the run.
Exit(stop, c) ==
    /\ state' = [eip |-> c.eip, count |-> c.count, stop |-> stop]
    /\ IF stop = "none"
       THEN phase' = "returned" /\ UNCHANGED result
       ELSE phase' = "idle" /\ result' = stop
    /\ NoEngine([eip |-> c.eip, count |-> c.count])
    /\ UNCHANGED host

\* run throws: the state memory stays as the last engine left it.
Throw ==
    /\ phase' = "idle"
    /\ result' = "threw"
    /\ UNCHANGED <<image, state, host, engine, ran>>

\* The pointer and counter after an instruction that goes on to t.
Retired(t) == [eip |-> t, count |-> Machine!Increment(cpu.count)]

\* Guest memory and, through it, what the cache would compile now.
Stores(m) ==
    /\ image' = m
    /\ IF Blocks[m] = Blocks[image]
       THEN UNCHANGED cache
       ELSE Cache!Write(Blocks[m])

Executes(i) == \E m \in IF i.op \in Machine!Stores THEN setup.images ELSE {image} : Stores(m)

-----------------------------------------------------------------------------
\* The embedder: run, clearCompiledBlocks, and stores to code in between.

Run(e, n) ==
    /\ phase = "idle"
    /\ n \in setup.limits
    /\ state.count \in setup.counts
    /\ setup.clears => written = {}
    /\ state' = [state EXCEPT !.eip = e]
    /\ budget' = [base |-> state.count, limit |-> n]
    /\ phase' = "loop"
    /\ result' = "running"
    /\ ran' = 0
    /\ UNCHANGED <<image, previous, engine, cache>>

ClearCompiledBlocks ==
    /\ phase = "idle"
    /\ UNCHANGED <<image, state, phase, host, engine, result, ran>>
    /\ Cache!Clear

Patch ==
    /\ phase = "idle"
    /\ \E m \in setup.images \ {image} : Stores(m)
    /\ UNCHANGED <<state, phase, host, engine, result, ran>>

-----------------------------------------------------------------------------
\* The run loop.

InstructionLimit ==
    /\ phase = "loop"
    /\ Remaining(state.count) = 0
    /\ Exit("limit", state)
    /\ UNCHANGED <<image, ran, cache>>

\* Both engines start from the state memory.
Enter(who) ==
    /\ phase = "loop"
    /\ Remaining(state.count) > 0
    /\ phase' = who
    /\ previous' = state.count
    /\ cpu' = [eip |-> state.eip, count |-> state.count]
    /\ UNCHANGED <<image, state, budget, result, ran>>

\* The fuel of the interpreter is an i32, as wide as the counter.
EnterInterpreter ==
    /\ Enter("interpreter")
    /\ fuel' = Remaining(state.count) % Wrap
    /\ UNCHANGED <<fn, pos>>

Interpret ==
    /\ ~setup.compiled
    /\ EnterInterpreter
    /\ UNCHANGED cache

\* Which identity a new module gets is of no consequence.
RunBlock ==
    /\ setup.compiled
    /\ Enter("block")
    /\ \/ Cache!Hit(state.eip)
       \/ /\ Cache!Free # {}
          /\ Cache!Compile(state.eip, CHOOSE h \in Cache!Free : TRUE)
    /\ fn' = answer'
    /\ pos' = 1
    /\ UNCHANGED fuel

\* No block: the interpreter takes over, with what is left of the budget.
FallBack ==
    /\ setup.compiled
    /\ EnterInterpreter
    /\ Cache!Unavailable(state.eip)

\* CompiledBlockDecodeError leaves run.
BlockDecodeError ==
    /\ setup.compiled
    /\ phase = "loop"
    /\ Remaining(state.count) > 0
    /\ Throw
    /\ Cache!DecodeError(state.eip)

\* An engine returned without a reason to stop.
Progress ==
    /\ phase = "returned"
    /\ state.count # previous
    /\ phase' = "loop"
    /\ UNCHANGED <<image, state, host, engine, result, ran, cache>>

NoProgress ==
    /\ phase = "returned"
    /\ state.count = previous
    /\ Throw
    /\ UNCHANGED cache

-----------------------------------------------------------------------------
\* The interpreter.

Fetched == image[cpu.eip]

OutOfFuel ==
    /\ phase = "interpreter"
    /\ fuel = 0
    /\ Exit("limit", cpu)
    /\ UNCHANGED <<image, ran, cache>>

\* Fault: the step costs no fuel.
InterpreterStepFree ==
    /\ phase = "interpreter"
    /\ fuel > 0
    /\ Machine!Retires(Fetched)
    /\ \E t \in Machine!After(Fetched) : cpu' = Retired(t)
    /\ Executes(Fetched)
    /\ ran' = Ran
    /\ UNCHANGED <<state, phase, host, fuel, fn, pos, result>>

InterpreterStep ==
    /\ phase = "interpreter"
    /\ fuel > 0
    /\ Machine!Retires(Fetched)
    /\ \E t \in Machine!After(Fetched) : cpu' = Retired(t)
    /\ fuel' = fuel - 1
    /\ Executes(Fetched)
    /\ ran' = Ran
    /\ UNCHANGED <<state, phase, host, fn, pos, result>>

InterpreterTrap ==
    /\ phase = "interpreter"
    /\ fuel > 0
    /\ Fetched.op = "trap"
    /\ Exit("trap", Retired(Fetched.next))
    /\ ran' = Ran
    /\ UNCHANGED <<image, cache>>

\* The instruction cannot be executed: nothing of it took effect.
InterpreterFault ==
    /\ phase = "interpreter"
    /\ fuel > 0
    /\ \/ Fetched.op = "unsupported" /\ Exit("unsupported", cpu)
       \/ Fetched.op = "unreadable" /\ Exit("decodeFault", cpu)
       \/ Fetched.op \in Machine!Accesses /\ Exit("memoryFault", cpu)
    /\ UNCHANGED <<image, ran, cache>>

-----------------------------------------------------------------------------
\* Compiled blocks.

Compiled == body[fn].path[pos].do

Entry(h) == body[h].path[1].at

\* Another instruction of the same block follows.
BlockStep ==
    /\ phase = "block"
    /\ pos < Len(body[fn].path)
    /\ Executes(Compiled)
    /\ cpu' = Retired(Compiled.next)
    /\ pos' = pos + 1
    /\ ran' = Ran
    /\ UNCHANGED <<state, phase, host, fuel, fn, result>>

\* Faults: the state stored before a stub's exit misses the last instruction;
\* a memory fault exits with the state of the block's entry.
TransferLosesCount(t) ==
    LET next == IF t = Entry(fn) THEN fn ELSE slot[fn][t] IN
    IF next = Stub
    THEN Exit("none", [eip |-> t, count |-> cpu.count])
    ELSE /\ state' = [state EXCEPT !.eip = t, !.count = Retired(t).count]
         /\ cpu' = [eip |-> Entry(next), count |-> state'.count]
         /\ fn' = next
         /\ pos' = 1
         /\ UNCHANGED <<phase, host, fuel, result>>

BlockMemoryFaultAtEntry ==
    /\ phase = "block"
    /\ Compiled.op \in Machine!Accesses
    /\ Exit("memoryFault", state)
    /\ UNCHANGED <<image, ran, cache>>

\* A static transfer stores the state, then calls the target's function: the
\* block itself, or what the slot holds.  A stub just exits to the host.
Transfer(t) ==
    LET next == IF t = Entry(fn) THEN fn ELSE slot[fn][t] IN
    IF next = Stub
    THEN Exit("none", Retired(t))
    ELSE /\ state' = [state EXCEPT !.eip = t, !.count = Retired(t).count]
         /\ cpu' = [eip |-> Entry(next), count |-> state'.count]
         /\ fn' = next
         /\ pos' = 1
         /\ UNCHANGED <<phase, host, fuel, result>>

BlockTransfer ==
    /\ phase = "block"
    /\ pos = Len(body[fn].path)
    /\ Executes(Compiled)
    /\ \E t \in Machine!After(Compiled) \cap StaticTargets(body[fn]) : Transfer(t)
    /\ ran' = Ran

BlockDynamicJump ==
    /\ phase = "block"
    /\ Compiled.op \in Machine!Dynamic
    /\ Executes(Compiled)
    /\ \E t \in Machine!After(Compiled) : Exit("none", Retired(t))
    /\ ran' = Ran

BlockTrap ==
    /\ phase = "block"
    /\ Compiled.op = "trap"
    /\ Exit("trap", Retired(Compiled.next))
    /\ ran' = Ran
    /\ UNCHANGED <<image, cache>>

BlockMemoryFault ==
    /\ phase = "block"
    /\ Compiled.op \in Machine!Accesses
    /\ Exit("memoryFault", cpu)
    /\ UNCHANGED <<image, ran, cache>>

-----------------------------------------------------------------------------
HostStep ==
    \/ InstructionLimit \/ Interpret \/ RunBlock \/ FallBack \/ BlockDecodeError
    \/ Progress \/ NoProgress

InterpreterRuns ==
    OutOfFuel \/ InterpreterStep \/ InterpreterTrap \/ InterpreterFault

BlockRuns ==
    BlockStep \/ BlockTransfer \/ BlockDynamicJump \/ BlockTrap \/ BlockMemoryFault

Running == HostStep \/ InterpreterRuns \/ BlockRuns

Next ==
    /\ \/ \E e \in Address, n \in Limits : Run(e, n)
       \/ ClearCompiledBlocks
       \/ Patch
       \/ Running
    /\ UNCHANGED setup

Spec == Init /\ [][Next]_vars

\* run is synchronous: once called it goes on until it returns.  Nothing
\* obliges the embedder to call again.
FairSpec == Spec /\ WF_vars(Running /\ UNCHANGED setup)

-----------------------------------------------------------------------------
(* The interpreter never executes more than maxInstructions, and reports    *)
(* the limit only when it executed exactly that many, even when the         *)
(* counter wraps during the run; provided its fuel can hold the limit.      *)
InterpreterHonoursLimit ==
    ~setup.compiled =>
        /\ ran <= budget.limit
        /\ phase = "idle" /\ result = "limit" /\ budget.limit < Wrap => ran = budget.limit

(* No engine reports the limit early: compiled blocks, the fallback to the  *)
(* interpreter and wrapped counters included (remainingInstructions).       *)
LimitMeansSpent ==
    phase = "idle" /\ result = "limit" /\ budget.limit < Wrap => ran >= budget.limit

(* run throws only where the block at the pointer cannot be decoded: an     *)
(* engine that executed something is never taken for one that made no       *)
(* progress, unless it executed a whole period of the counter               *)
(* (runRuntimeProgram, CompiledBlockDecodeError).                           *)
ThrowsOnlyUndecodable ==
    [][result = "running" /\ result' = "threw" /\ ran < Wrap =>
        Blocks[image][state.eip].end = "decodeFault"]_vars

(* A block function is entered, by the run loop or by a link, only with the *)
(* code memory holds, unless that code was written after it was compiled    *)
(* and the cache was not cleared since.                                     *)
BlockRunsWhatMemoryHolds ==
    phase = "block" /\ Entry(fn) \notin written =>
        body[fn] = Blocks[image][Entry(fn)]

\* Nothing tells the cache of stores to code: the block that runs may have been
\* compiled from code written since.
Stale == phase = "block" /\ Entry(fn) \in written

(* Every mode executes the same machine, except where the block that runs   *)
(* is stale: each instruction is retired once, in order, from memory as it  *)
(* is, and a run that ends leaves pointer and counter where the machine is. *)
ImplementsMachine ==
    Machine!Init /\ [][~Stale => Machine!Next]_(Machine!vars)

(* A call of run returns or throws.                                         *)
RunReturns == phase # "idle" ~> phase = "idle"
=============================================================================
