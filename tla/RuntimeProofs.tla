---------------------------- MODULE RuntimeProofs ----------------------------
(***************************************************************************)
(* Proofs about Runtime for any set of runtimes and any programs.          *)
(*                                                                         *)
(* The run loop sees of an engine only the pointer and the counter it      *)
(* leaves in the state memory, and the counter wraps.  What it concludes   *)
(* from them (the budget is spent, no progress was made) is right because  *)
(* they are related, at every instruction, to what has been executed; what *)
(* the compiled blocks execute is right because the function that runs is  *)
(* the one cached for its entry, which the invariant of the block cache    *)
(* says what it was compiled from.                                         *)
(***************************************************************************)
EXTENDS RuntimeDecoding

P == INSTANCE BlockCacheProofs WITH
        Eip <- Address, Code <- Content,
        Images <- {Blocks[m] : m \in Image}, code <- Blocks[image]

\* The counter of whoever runs.
live == IF phase \in {"interpreter", "block"} THEN cpu.count ELSE state.count

IdleMeansReturned == phase = "idle" <=> result # "running"

\* The function that runs is cached, and is about to execute the instruction
\* at the pointer.
InPlace ==
    phase = "block" => \E e \in Address :
        /\ blocks[e] # None
        /\ blocks[e] = fn
        /\ cpu.eip = body[fn].path[pos].at

\* The counter exceeds the base by no more than was executed, and the fuel
\* is no less than what is left, as far as it can hold that.
Spent ==
    /\ phase \in {"loop", "returned", "block"} /\ ran < MaxRan => live <= budget.base + ran
    /\ phase = "interpreter" /\ ran < MaxRan /\ budget.limit < Wrap =>
         ran + fuel >= budget.limit

\* The counter is ahead of where the block engine found it, by no more than
\* was executed; when the engine has returned, by one at least.
Ahead(least) ==
    \E d \in least .. ran : live = previous + d \/ live = previous + d - Wrap

Progressing ==
    /\ phase = "block" /\ ran < Wrap => Ahead(0)
    /\ phase = "returned" /\ ran < Wrap => Ahead(1)

\* In interpreter mode a run enters its engine once.
Exact ==
    ~setup.compiled =>
        /\ phase \notin {"block", "returned"}
        /\ phase = "loop" => ran = 0 /\ state.count = budget.base
        /\ phase = "interpreter" => /\ ran + fuel <= budget.limit
                                    /\ budget.limit < Wrap => ran + fuel = budget.limit

RuntimeInv ==
    /\ TypeOK
    /\ P!CacheInv
    /\ IdleMeansReturned
    /\ InPlace
    /\ Spent
    /\ LimitMeansSpent
    /\ Progressing
    /\ Exact
    /\ InterpreterHonoursLimit

-----------------------------------------------------------------------------
\* The block cache.

\* The decoded blocks are what BlockCache assumes of its contents.
LEMMA CacheAssumptions ==
    P!DecodeAssumption /\ P!ImagesAssumption /\ P!DistinctAssumption
<1>1. P!DecodeAssumption
  BY DecodeType DEF P!DecodeAssumption, P!Kinds
<1>2. P!ImagesAssumption
  BY BlocksType DEF P!ImagesAssumption
<1>3. P!DistinctAssumption
  BY DistinctAssumption DEF P!DistinctAssumption
<1> QED BY <1>1, <1>2, <1>3

\* Its invariant holds at first and after each of its steps.
LEMMA CacheInit == P!Init => P!CacheInv
BY CacheAssumptions, P!InitInv DEF P!DecodeAssumption, P!ImagesAssumption, P!DistinctAssumption, P!Kinds

\* It is inductive, whatever the run loop does.
LEMMA CacheStep == P!CacheInv /\ [P!Next]_(P!vars) => P!CacheInv'
BY CacheAssumptions, P!StepInv DEF P!DecodeAssumption, P!ImagesAssumption, P!DistinctAssumption, P!Kinds

\* The runtime starts with an empty cache.
LEMMA CacheStarts == Init => P!Init
BY DEF Init, Cache!Init, P!Init, Image

\* A store to guest memory is a write that the cache is not told of.
LEMMA StoresStep ==
    ASSUME NEW m \in Image, Stores(m)
    PROVE  [P!Next]_(P!vars)
<1>1. image' = m /\ (Blocks[image])' = Blocks[m]
  BY DEF Stores
<1>2. CASE Blocks[m] = Blocks[image]
  BY <1>1, <1>2 DEF Stores, cache, P!vars
<1>3. CASE Blocks[m] # Blocks[image]
  <2>1. P!Write(Blocks[m])
    BY <1>1, <1>3 DEF Stores, Cache!Write, P!Write
  <2> QED BY <2>1 DEF P!Next
<1> QED BY <1>2, <1>3

\* An instruction that is executed may store: one of those writes, or none.
LEMMA ExecutesStep ==
    ASSUME TypeOK, NEW i, Executes(i)
    PROVE  [P!Next]_(P!vars) /\ image' \in setup.images
<1>1. setup.images \subseteq Image
  BY DEF TypeOK, Image
<1>2. PICK m \in setup.images : Stores(m)
  BY DEF Executes, TypeOK
<1> QED BY <1>1, <1>2, StoresStep DEF Stores

\* A step that leaves memory and cache alone.
LEMMA CacheUntouched ==
    ASSUME UNCHANGED <<image, cache>>
    PROVE  UNCHANGED P!vars
BY DEF cache, P!vars

\* getOrCompile, whatever it answers.
LEMMA GetOrCompileStep ==
    ASSUME NEW e \in Address, UNCHANGED image,
           \/ Cache!Hit(e) \/ Cache!Unavailable(e) \/ Cache!DecodeError(e)
           \/ \E h \in Handle : Cache!Compile(e, h)
    PROVE  P!Next
<1>1. CASE Cache!Hit(e)
  BY <1>1 DEF Cache!Hit, P!Hit, P!GetOrCompile, P!Next
<1>2. CASE Cache!Unavailable(e)
  BY <1>2 DEF Cache!Unavailable, P!Unavailable, P!GetOrCompile, P!Next
<1>3. CASE Cache!DecodeError(e)
  BY <1>3 DEF Cache!DecodeError, P!DecodeError, P!GetOrCompile, P!Next
<1>4. ASSUME NEW h \in Handle, Cache!Compile(e, h)
      PROVE  P!Next
  <2>1. P!Compile(e, h)
    BY <1>4
    DEF Cache!Compile, Cache!LinkTargets, Cache!RegisterTable, Cache!NewTable,
        Cache!SetInDependents, Cache!Free, Cache!Cached,
        P!Compile, P!LinkTargets, P!RegisterTable, P!NewTable,
        P!SetInDependents, P!Free, P!Cached
  <2> QED BY <2>1 DEF P!GetOrCompile, P!Next
<1> QED BY <1>1, <1>2, <1>3, <1>4

\* clearCompiledBlocks, between two runs.
LEMMA ClearStep ==
    ASSUME UNCHANGED image, Cache!Clear
    PROVE  P!Next
BY DEF Cache!Clear, P!Clear, P!Next

\* Every step of the runtime is a step of the cache or leaves it alone.
LEMMA RuntimeStepsCache ==
    ASSUME TypeOK, Next
    PROVE  [P!Next]_(P!vars)
<1>0. state.eip \in Address
  BY DEF TypeOK
<1>1. ASSUME NEW e \in Address, NEW n \in Limits, Run(e, n)
      PROVE  UNCHANGED P!vars
  BY <1>1, CacheUntouched DEF Run
<1>2. CASE ClearCompiledBlocks
  BY <1>2, ClearStep DEF ClearCompiledBlocks
<1>3. CASE Patch
  <2>1. PICK m \in setup.images : Stores(m)
    BY <1>3 DEF Patch
  <2>2. m \in Image
    BY DEF TypeOK, Image
  <2> QED BY <2>1, <2>2, StoresStep
<1>4. CASE HostStep
  <2>1. CASE InstructionLimit \/ Interpret \/ Progress \/ NoProgress
    BY <2>1, CacheUntouched
    DEF InstructionLimit, Interpret, EnterInterpreter, Enter, Progress, NoProgress, Throw
  <2>2. CASE RunBlock
    <3>1. CASE Cache!Hit(state.eip)
      BY <1>0, <2>2, <3>1, GetOrCompileStep DEF RunBlock, Enter
    <3>2. CASE /\ Cache!Free # {}
               /\ Cache!Compile(state.eip, CHOOSE h \in Cache!Free : TRUE)
      <4>1. (CHOOSE h \in Cache!Free : TRUE) \in Cache!Free
        BY <3>2
      <4>2. (CHOOSE h \in Cache!Free : TRUE) \in Handle
        BY <4>1 DEF Cache!Free
      <4> QED BY <1>0, <2>2, <3>2, <4>2, GetOrCompileStep DEF RunBlock, Enter
    <3> QED BY <2>2, <3>1, <3>2 DEF RunBlock
  <2>3. CASE FallBack
    BY <1>0, <2>3, GetOrCompileStep DEF FallBack, EnterInterpreter, Enter
  <2>4. CASE BlockDecodeError
    BY <1>0, <2>4, GetOrCompileStep DEF BlockDecodeError, Throw
  <2> QED BY <1>4, <2>1, <2>2, <2>3, <2>4 DEF HostStep
<1>5. CASE OutOfFuel \/ InterpreterTrap \/ InterpreterFault \/ BlockTrap \/ BlockMemoryFault
  BY <1>5, CacheUntouched
  DEF OutOfFuel, InterpreterTrap, InterpreterFault, BlockTrap, BlockMemoryFault
<1>6. CASE InterpreterStep \/ BlockStep \/ BlockTransfer \/ BlockDynamicJump
  BY <1>6, ExecutesStep DEF InterpreterStep, BlockStep, BlockTransfer, BlockDynamicJump
<1> QED BY <1>1, <1>2, <1>3, <1>4, <1>5, <1>6 DEF Next, Running, InterpreterRuns, BlockRuns

\* A cached block has the instructions decoded at its entry, from some memory,
\* and links for its static targets other than itself.
LEMMA CachedBlock ==
    ASSUME P!CacheInv, NEW e \in Address, blocks[e] # None
    PROVE  LET h == blocks[e]
           IN  /\ h \in Handle
               /\ h \in P!Cached
               /\ \E m \in Image : Decoded(m, e, MaxBlock, body[h])
               /\ body[h].path # <<>>
               /\ Entry(h) = e
               /\ targets[h] = StaticTargets(body[h]) \ {e}
               /\ e \notin written => body[h] = Blocks[image][e]
<1> DEFINE h == blocks[e]
<1>1. h \in Handle /\ h \in P!Cached
  BY DEF P!CacheInv, P!TypeOK, P!Cached
<1>2. PICK m \in Image : body[h] = Blocks[m][e]
  BY DEF P!CacheInv, P!BlocksCompiled
<1>3. Decode[Blocks[m][e]].kind = "block" /\ targets[h] = Decode[Blocks[m][e]].targets \ {e}
  BY <1>2 DEF P!CacheInv, P!BlocksCompiled
<1>4. Decoded(m, e, MaxBlock, body[h]) /\ body[h].path # <<>> /\ Entry(h) = e
  BY <1>2, <1>3, BlockHasEntry DEF Entry
<1>5. Blocks[m][e] \in Content
  BY BlocksType
<1>6. targets[h] = StaticTargets(body[h]) \ {e}
  BY <1>2, <1>3, <1>5 DEF Decode
<1>7. e \notin written => body[h] = Blocks[image][e]
  BY DEF P!CacheInv, P!BlocksCurrent
<1> QED BY <1>1, <1>4, <1>6, <1>7

-----------------------------------------------------------------------------
\* The block that runs.

\* The instruction at the pointer is one of the function's, decoded from some
\* memory; from memory as it is, unless the block was written since.
LEMMA RunningBlock ==
    ASSUME RuntimeInv, phase = "block"
    PROVE  /\ Entry(fn) \in Address /\ blocks[Entry(fn)] = fn /\ fn # None
           /\ \E m \in Image : Decoded(m, Entry(fn), MaxBlock, body[fn])
           /\ pos \in 1 .. Len(body[fn].path)
           /\ Len(body[fn].path) \in 1 .. MaxBlock
           /\ cpu.eip = body[fn].path[pos].at
           /\ Compiled \in Machine!Instruction
           /\ Compiled.op \notin {"unsupported", "unreadable"}
           /\ pos < Len(body[fn].path) =>
                /\ Compiled.op \in Straight
                /\ body[fn].path[pos + 1].at = Compiled.next
           /\ ~Stale => /\ body[fn] = Blocks[image][Entry(fn)]
                        /\ Compiled = Fetched
<1>1. PICK e \in Address : blocks[e] # None /\ blocks[e] = fn /\ cpu.eip = body[fn].path[pos].at
  BY DEF RuntimeInv, InPlace
<1>2. PICK m \in Image : Decoded(m, e, MaxBlock, body[fn])
  BY <1>1, CachedBlock DEF RuntimeInv
<1>3. Entry(fn) = e /\ body[fn].path # <<>> /\ (e \notin written => body[fn] = Blocks[image][e])
  BY <1>1, CachedBlock DEF RuntimeInv
<1>4. Len(body[fn].path) \in 1 .. MaxBlock
  BY <1>2, <1>3, LastEntry
<1>5. pos \in 1 .. Len(body[fn].path)
  BY <1>4 DEF RuntimeInv, TypeOK
<1>6. body[fn].path[pos] \in Entries
  BY <1>2, <1>5 DEF Decoded
<1>7. Compiled \in Machine!Instruction /\ Compiled.op \notin {"unsupported", "unreadable"}
  BY <1>2, <1>5, <1>6 DEF Decoded, Entries, Compiled
<1>8. pos < Len(body[fn].path) => /\ Compiled.op \in Straight
                                  /\ body[fn].path[pos + 1].at = Compiled.next
  BY <1>2, <1>4, <1>5 DEF Decoded, Compiled
<1>9. ~Stale => body[fn] = Blocks[image][e] /\ Compiled = Fetched
  <2> SUFFICES ASSUME ~Stale
               PROVE  body[fn] = Blocks[image][e] /\ Compiled = Fetched
    OBVIOUS
  <2>1. body[fn] = Blocks[image][e]
    BY <1>3 DEF Stale
  <2>2. image \in Image
    BY DEF RuntimeInv, TypeOK, Image
  <2>3. Decoded(image, e, MaxBlock, body[fn])
    BY <2>1, <2>2, BlockDecoded DEF Blocks
  <2> QED BY <1>1, <1>5, <2>1, <2>3 DEF Decoded, Compiled, Fetched
<1> QED BY <1>1, <1>2, <1>3, <1>4, <1>5, <1>7, <1>8, <1>9

\* A static transfer follows an instruction that is retired.
LEMMA TransferRetires ==
    ASSUME RuntimeInv, phase = "block", pos = Len(body[fn].path),
           NEW t \in StaticTargets(body[fn])
    PROVE  t \in Address /\ Machine!Retires(Compiled)
<1>1. PICK m \in Image : Decoded(m, Entry(fn), MaxBlock, body[fn])
  BY RunningBlock
<1>2. t \in Address
  BY <1>1, StaticTargetsType
<1>3. Machine!Retires(Compiled)
  <2>1. body[fn].path # <<>>
    BY RunningBlock
  <2>2. CASE body[fn].end # "control"
    <3>1. Compiled.op \in Straight
      BY <1>1, <2>1, <2>2 DEF Decoded, Compiled
    <3> QED BY <3>1 DEF Straight, Machine!Retires
  <2>3. CASE body[fn].end = "control"
    BY <2>3 DEF StaticTargets, Compiled, Machine!Retires
  <2> QED BY <2>2, <2>3
<1> QED BY <1>2, <1>3

\* The function that a static transfer reaches is the one cached for its target.
LEMMA Landing ==
    ASSUME RuntimeInv, phase = "block", NEW t \in StaticTargets(body[fn]), NEW next,
           next = IF t = Entry(fn) THEN fn ELSE slot[fn][t],
           next # Stub
    PROVE  /\ t \in Address /\ next \in Handle /\ next # None
           /\ blocks[t] = next
           /\ Entry(next) = t
           /\ Len(body[next].path) \in 1 .. MaxBlock
<1>1. /\ Entry(fn) \in Address /\ blocks[Entry(fn)] = fn /\ fn # None
      /\ \E m \in Image : Decoded(m, Entry(fn), MaxBlock, body[fn])
  BY RunningBlock
<1>2. t \in Address
  BY <1>1, StaticTargetsType
<1>3. blocks[t] = next /\ next # None
  <2>1. CASE t = Entry(fn)
    BY <1>1, <2>1
  <2>2. CASE t # Entry(fn)
    <3>1. fn \in P!Cached /\ t \in targets[fn]
      BY <1>1, <2>2, CachedBlock DEF RuntimeInv
    <3>2. slot[fn][t] = IF blocks[t] = None THEN Stub ELSE blocks[t]
      BY <3>1 DEF RuntimeInv, P!CacheInv, P!LinkCoherence
    <3> QED BY <2>2, <3>2
  <2> QED BY <2>1, <2>2
<1>4. next \in Handle /\ Entry(next) = t
  BY <1>2, <1>3, CachedBlock DEF RuntimeInv
<1>5. Len(body[next].path) \in 1 .. MaxBlock
  BY <1>2, <1>3, CachedBlock, LastEntry DEF RuntimeInv
<1> QED BY <1>2, <1>3, <1>4, <1>5

\* The run loop enters the block cached for the pointer, compiled before or now.
LEMMA RunBlockEnters ==
    ASSUME RuntimeInv, RunBlock
    PROVE  /\ fn' \in Handle /\ fn' # None
           /\ blocks'[state.eip] = fn'
           /\ body'[fn'].path[1].at = state.eip
           /\ Len(body'[fn'].path) \in 1 .. MaxBlock
<1> DEFINE e == state.eip
<1>1. e \in Address /\ image \in Image /\ fn' = answer'
  BY DEF RuntimeInv, TypeOK, Image, RunBlock
<1>2. CASE Cache!Hit(e)
  <2>1. blocks[e] # None /\ fn' = blocks[e] /\ UNCHANGED <<blocks, body>>
    BY <1>1, <1>2 DEF Cache!Hit
  <2> QED BY <1>1, <2>1, CachedBlock, LastEntry DEF RuntimeInv, Entry
<1>3. CASE Cache!Free # {} /\ Cache!Compile(e, CHOOSE h \in Cache!Free : TRUE)
  <2>1. PICK h \in Cache!Free : Cache!Compile(e, h)
    <3>1. (CHOOSE h \in Cache!Free : TRUE) \in Cache!Free
      BY <1>3
    <3> QED BY <1>3, <3>1
  <2>2. /\ Decode[Blocks[image][e]].kind = "block" /\ answer' = h
        /\ body' = [body EXCEPT ![h] = Blocks[image][e]]
        /\ blocks' = [blocks EXCEPT ![e] = h]
    BY <2>1 DEF Cache!Compile
  <2>3. h \in Handle /\ h # None
    BY <2>1, DistinctAssumption DEF Cache!Free
  <2>4. blocks'[e] = h /\ body'[h] = Blocks[image][e]
    BY <1>1, <2>2, <2>3 DEF RuntimeInv, TypeOK, Cache!TypeOK
  <2> QED BY <1>1, <2>2, <2>3, <2>4, BlockHasEntry, LastEntry
<1> QED BY <1>2, <1>3 DEF RunBlock

\* Stores change nothing of the cache but what is known to be written.
LEMMA ExecutesFrame ==
    ASSUME TypeOK, NEW i, Executes(i)
    PROVE  /\ UNCHANGED <<blocks, body, targets, slot, dependents, answer>>
           /\ image' \in setup.images
           /\ i.op \notin Machine!Stores => image' = image
<1>1. PICK m \in IF i.op \in Machine!Stores THEN setup.images ELSE {image} : Stores(m)
  BY DEF Executes
<1>2. image' = m /\ image' \in setup.images
  BY <1>1 DEF Stores, TypeOK
<1>3. UNCHANGED <<blocks, body, targets, slot, dependents, answer>>
  BY <1>1 DEF Stores, cache, Cache!Write
<1> QED BY <1>1, <1>2, <1>3

-----------------------------------------------------------------------------
\* The counter and the pointer.

\* The counter starts again at 0 when it reaches its width.
LEMMA IncrementValue ==
    ASSUME NEW n \in 0 .. Wrap - 1
    PROVE  Machine!Increment(n) = IF n + 1 = Wrap THEN 0 ELSE n + 1
BY RuntimeAssumption DEF Machine!Increment

\* The conversion to an i32 takes the number modulo its width.
LEMMA FuelValue ==
    ASSUME NEW n \in Nat
    PROVE  /\ n % Wrap \in 0 .. Wrap - 1
           /\ n % Wrap <= n
           /\ n < Wrap => n % Wrap = n
BY RuntimeAssumption

\* Control goes from an address to an address.
LEMMA AfterType ==
    ASSUME NEW i \in Machine!Instruction
    PROVE  Machine!After(i) \subseteq Address
BY DEF Machine!After, Machine!Instruction

\* What the interpreter fetches is an instruction.
LEMMA FetchedType ==
    ASSUME TypeOK, cpu.eip \in Address
    PROVE  Fetched \in Machine!Instruction
BY ImageAssumption DEF TypeOK, Image, Fetched

\* The pointer and the counter after an instruction.
LEMMA RetiredType ==
    ASSUME TypeOK, NEW t \in Address
    PROVE  /\ Retired(t) \in Cpu
           /\ Retired(t).eip = t
           /\ Retired(t).count = IF cpu.count + 1 = Wrap THEN 0 ELSE cpu.count + 1
<1>1. cpu.count \in 0 .. Wrap - 1
  BY DEF TypeOK, Cpu
<1> QED BY <1>1, IncrementValue, RuntimeAssumption DEF Retired, Cpu

\* A counter that exceeds the base by k at most leaves k less than the limit at
\* least.
LEMMA RemainingType ==
    ASSUME TypeOK, NEW n \in 0 .. Wrap - 1
    PROVE  /\ Remaining(n) \in 0 .. budget.limit
           /\ budget.limit \in Nat /\ budget.limit < MaxRan
           /\ budget.base \in Nat
           /\ \A k \in Nat : n <= budget.base + k => k + Remaining(n) >= budget.limit
           /\ n = budget.base => Remaining(n) = budget.limit
<1>1. budget.base \in 0 .. Wrap - 1 /\ budget.limit \in setup.limits \cup {0}
  BY DEF TypeOK
<1>2. budget.limit \in Nat /\ budget.limit < MaxRan
  BY <1>1, RuntimeAssumption DEF TypeOK
<1> QED BY <1>1, <1>2, RuntimeAssumption DEF Remaining, Executed

\* The history variable counts up to its bound.
LEMMA RanType ==
    ASSUME TypeOK
    PROVE  Ran \in 0 .. MaxRan /\ (ran < MaxRan => Ran = ran + 1) /\ ran <= Ran
BY RuntimeAssumption DEF TypeOK, Ran

-----------------------------------------------------------------------------
\* The types of the host's and the engines' state, the cache left aside.
HostTyped ==
    /\ setup \in Setups
    /\ image \in setup.images
    /\ state \in [eip : Address, count : 0 .. Wrap - 1, stop : Stops]
    /\ phase \in {"idle", "loop", "returned", "interpreter", "block"}
    /\ budget \in [base : 0 .. Wrap - 1, limit : setup.limits \cup {0}]
    /\ previous \in 0 .. Wrap - 1
    /\ cpu \in Cpu
    /\ fuel \in 0 .. Wrap - 1
    /\ fn \in Handle \cup {None}
    /\ pos \in 1 .. MaxBlock
    /\ result \in {"running", "threw"} \cup Stops
    /\ ran \in 0 .. MaxRan
    /\ phase = "block" => fn # None /\ pos <= Len(body[fn].path)

\* The type invariant, in two parts.
LEMMA TypeParts == TypeOK <=> HostTyped /\ Cache!TypeOK
BY DEF TypeOK, HostTyped

\* An exit of an engine, or of the run loop itself, at a place that is known.
LEMMA ExitTyped ==
    ASSUME TypeOK, NEW stop \in Stops, NEW c, Exit(stop, c),
           c.eip \in Address, c.count \in 0 .. Wrap - 1,
           image' \in setup.images, ran' \in 0 .. MaxRan, UNCHANGED setup
    PROVE  HostTyped'
BY RuntimeAssumption DEF TypeOK, HostTyped, Exit, NoEngine, host, Cpu

\* Both engines start with the pointer and the counter of the state memory.
LEMMA EnterTyped ==
    ASSUME TypeOK, NEW who, Enter(who), UNCHANGED setup
    PROVE  /\ setup' \in Setups /\ image' \in setup'.images
           /\ state' \in [eip : Address, count : 0 .. Wrap - 1, stop : Stops]
           /\ budget' \in [base : 0 .. Wrap - 1, limit : setup'.limits \cup {0}]
           /\ previous' \in 0 .. Wrap - 1
           /\ cpu' \in Cpu
           /\ result' \in {"running", "threw"} \cup Stops
           /\ ran' \in 0 .. MaxRan
BY DEF TypeOK, Enter, Cpu

\* The host's and the engines' part, action by action.
LEMMA HostTypeStep ==
    ASSUME RuntimeInv, Next, P!CacheInv'
    PROVE  HostTyped'
<1>0. TypeOK /\ UNCHANGED setup /\ state.eip \in Address /\ state.count \in 0 .. Wrap - 1
  BY DEF RuntimeInv, Next, TypeOK
<1>a. cpu.eip \in Address /\ cpu.count \in 0 .. Wrap - 1
  BY <1>0 DEF TypeOK, Cpu
<1>1. ASSUME NEW e \in Address, NEW n \in Limits, Run(e, n)
      PROVE  HostTyped'
  BY <1>0, <1>1, RuntimeAssumption DEF Run, TypeOK, HostTyped, engine
<1>2. CASE ClearCompiledBlocks \/ Patch
  <2>1. image' \in setup.images
    BY <1>0, <1>2 DEF ClearCompiledBlocks, Patch, Stores, TypeOK
  <2>2. UNCHANGED <<state, phase, host, engine, result, ran>> /\ phase = "idle"
    BY <1>2 DEF ClearCompiledBlocks, Patch
  <2> QED BY <1>0, <2>1, <2>2 DEF TypeOK, HostTyped, host, engine
<1>3. CASE InstructionLimit
  BY <1>0, <1>3, ExitTyped DEF InstructionLimit, Stops, TypeOK
<1>4. CASE Interpret \/ FallBack
  <2>1. Enter("interpreter") /\ fuel' = Remaining(state.count) % Wrap /\ UNCHANGED <<fn, pos>>
    BY <1>4 DEF Interpret, FallBack, EnterInterpreter
  <2>2. Remaining(state.count) % Wrap \in 0 .. Wrap - 1
    BY <1>0, RemainingType, FuelValue
  <2>3. phase' = "interpreter"
    BY <2>1 DEF Enter
  <2> QED BY <1>0, <2>1, <2>2, <2>3, EnterTyped DEF TypeOK, HostTyped
<1>5. CASE RunBlock
  <2>1. Enter("block") /\ fn' = answer' /\ pos' = 1 /\ UNCHANGED fuel
    BY <1>5 DEF RunBlock
  <2>2. fn' \in Handle /\ fn' # None /\ Len(body'[fn'].path) \in 1 .. MaxBlock
    BY <1>5, RunBlockEnters
  <2>3. phase' = "block" /\ 1 <= Len(body'[fn'].path)
    BY <2>1, <2>2 DEF Enter
  <2>4. pos' \in 1 .. MaxBlock /\ fuel' \in 0 .. Wrap - 1
    BY <1>0, <2>1, RuntimeAssumption DEF TypeOK
  <2> QED BY <1>0, <2>1, <2>2, <2>3, <2>4, EnterTyped DEF HostTyped
<1>6. CASE BlockDecodeError \/ NoProgress
  BY <1>0, <1>6 DEF BlockDecodeError, NoProgress, Throw, TypeOK, HostTyped, host, engine
<1>7. CASE Progress
  BY <1>0, <1>7 DEF Progress, TypeOK, HostTyped, host, engine
<1>8. CASE OutOfFuel \/ InterpreterFault \/ BlockMemoryFault
  BY <1>0, <1>a, <1>8, ExitTyped
  DEF OutOfFuel, InterpreterFault, BlockMemoryFault, Stops, TypeOK
<1>9. CASE InterpreterStep
  <2>1. PICK t \in Address : cpu' = Retired(t)
    BY <1>0, <1>a, <1>9, FetchedType, AfterType DEF InterpreterStep
  <2>2. cpu' \in Cpu /\ ran' \in 0 .. MaxRan /\ image' \in setup.images
    BY <1>0, <1>9, <2>1, RetiredType, RanType, ExecutesFrame DEF InterpreterStep
  <2>3. fuel' \in 0 .. Wrap - 1
    BY <1>0, <1>9, RuntimeAssumption DEF InterpreterStep, TypeOK
  <2> QED BY <1>0, <1>9, <2>2, <2>3 DEF InterpreterStep, TypeOK, HostTyped, host
<1>10. CASE InterpreterTrap
  <2>1. Fetched.next \in Address
    BY <1>0, <1>a, FetchedType DEF Machine!Instruction
  <2>2. Retired(Fetched.next).eip \in Address /\ Retired(Fetched.next).count \in 0 .. Wrap - 1
    BY <1>0, <2>1, RetiredType DEF Cpu
  <2> QED BY <1>0, <1>10, <2>2, ExitTyped, RanType DEF InterpreterTrap, Stops, TypeOK
<1>11. CASE BlockStep
  <2>1. Compiled.next \in Address /\ pos \in 1 .. Len(body[fn].path) /\ Len(body[fn].path) \in 1 .. MaxBlock
    BY <1>11, RunningBlock DEF BlockStep, Machine!Instruction
  <2>2. cpu' \in Cpu /\ ran' \in 0 .. MaxRan /\ image' \in setup.images /\ body' = body
    BY <1>0, <1>11, <2>1, RetiredType, RanType, ExecutesFrame DEF BlockStep
  <2>3. pos' \in 1 .. MaxBlock /\ pos' <= Len(body[fn].path)
    BY <1>11, <2>1, RuntimeAssumption DEF BlockStep
  <2> QED BY <1>0, <1>11, <2>2, <2>3 DEF BlockStep, TypeOK, HostTyped, host
<1>12. CASE BlockTransfer
  <2>1. PICK t \in StaticTargets(body[fn]) : Transfer(t)
    BY <1>12 DEF BlockTransfer
  <2>2. t \in Address
    BY <1>12, TransferRetires DEF BlockTransfer
  <2>3. ran' \in 0 .. MaxRan /\ image' \in setup.images /\ body' = body
    BY <1>0, <1>12, RanType, ExecutesFrame DEF BlockTransfer
  <2>4. Retired(t) \in Cpu
    BY <1>0, <2>2, RetiredType
  <2> DEFINE next == IF t = Entry(fn) THEN fn ELSE slot[fn][t]
  <2>5. CASE next = Stub
    BY <1>0, <2>1, <2>3, <2>4, <2>5, ExitTyped DEF Transfer, Cpu, Stops
  <2>6. CASE next # Stub
    <3>1. /\ state' = [state EXCEPT !.eip = t, !.count = Retired(t).count]
          /\ cpu' = [eip |-> Entry(next), count |-> state'.count]
          /\ fn' = next /\ pos' = 1
          /\ UNCHANGED <<phase, host, fuel, result>>
      BY <2>1, <2>6 DEF Transfer
    <3>2. Entry(next) = t /\ next \in Handle /\ next # None /\ Len(body[next].path) \in 1 .. MaxBlock
      BY <1>12, <2>6, Landing DEF BlockTransfer
    <3>3. state' \in [eip : Address, count : 0 .. Wrap - 1, stop : Stops]
      BY <1>0, <2>2, <2>4, <3>1 DEF TypeOK, Cpu
    <3>4. cpu' \in Cpu
      BY <2>2, <3>1, <3>2, <3>3 DEF Cpu
    <3> HIDE DEF next
    <3> QED BY <1>0, <2>3, <3>1, <3>2, <3>3, <3>4, RuntimeAssumption DEF TypeOK, HostTyped, host
  <2> QED BY <2>5, <2>6
<1>13. CASE BlockDynamicJump \/ BlockTrap
  <2>1. PICK t \in Address, stop \in {"none", "trap"} : Exit(stop, Retired(t))
    <3>1. Compiled \in Machine!Instruction
      BY <1>13, RunningBlock DEF BlockDynamicJump, BlockTrap
    <3> QED BY <1>13, <3>1, AfterType
            DEF BlockDynamicJump, BlockTrap, Machine!Instruction
  <2>2. Retired(t).eip \in Address /\ Retired(t).count \in 0 .. Wrap - 1
    BY <1>0, RetiredType DEF Cpu
  <2>3. image' \in setup.images
    BY <1>0, <1>13, ExecutesFrame DEF BlockDynamicJump, BlockTrap, TypeOK
  <2> QED BY <1>0, <1>13, <2>1, <2>2, <2>3, ExitTyped, RanType
          DEF BlockDynamicJump, BlockTrap, Stops, TypeOK
<1> QED BY <1>1, <1>2, <1>3, <1>4, <1>5, <1>6, <1>7, <1>8, <1>9, <1>10, <1>11, <1>12, <1>13
        DEF Next, Running, HostStep, InterpreterRuns, BlockRuns

-----------------------------------------------------------------------------
\* Each part of the invariant, after each step that can disturb it.

\* The types, and the invariant of the cache.
LEMMA TypeStep ==
    ASSUME RuntimeInv, Next
    PROVE  P!CacheInv' /\ TypeOK'
<1>1. P!CacheInv'
  BY RuntimeStepsCache, CacheStep DEF RuntimeInv
<1>2. HostTyped'
  BY <1>1, HostTypeStep
<1>3. Cache!TypeOK'
  BY <1>1 DEF P!CacheInv, P!TypeOK, Cache!TypeOK
<1> QED BY <1>1, <1>2, <1>3 DEF TypeOK, HostTyped

\* A run is under way exactly as long as it has no result.
LEMMA IdleStep ==
    ASSUME RuntimeInv, Next
    PROVE  IdleMeansReturned'
<1> USE DEF IdleMeansReturned
<1>0. IdleMeansReturned
  BY DEF RuntimeInv
<1>1. ASSUME NEW e \in Address, NEW n \in Limits, Run(e, n)
      PROVE  IdleMeansReturned'
  BY <1>1 DEF Run
<1>2. CASE ClearCompiledBlocks \/ Patch
  BY <1>0, <1>2 DEF ClearCompiledBlocks, Patch
<1>3. CASE InstructionLimit \/ BlockDecodeError \/ Progress \/ NoProgress
  BY <1>0, <1>3 DEF InstructionLimit, Exit, BlockDecodeError, Progress, NoProgress, Throw
<1>4. CASE Interpret \/ RunBlock \/ FallBack
  BY <1>0, <1>4 DEF Interpret, RunBlock, FallBack, EnterInterpreter, Enter
<1>5. CASE InterpreterRuns
  BY <1>0, <1>5
  DEF InterpreterRuns, OutOfFuel, InterpreterStep, InterpreterTrap, InterpreterFault, Exit
<1>6. CASE BlockStep \/ BlockDynamicJump \/ BlockTrap \/ BlockMemoryFault
  BY <1>0, <1>6 DEF BlockStep, BlockDynamicJump, BlockTrap, BlockMemoryFault, Exit
<1>7. CASE BlockTransfer
  BY <1>0, <1>7 DEF BlockTransfer, Transfer, Exit
<1> QED BY <1>1, <1>2, <1>3, <1>4, <1>5, <1>6, <1>7
        DEF Next, Running, HostStep, BlockRuns

\* The instruction pointer of a block stays on the block's next instruction:
\* as it is entered, from each instruction to the next, and across a link.
LEMMA InPlaceStep ==
    ASSUME RuntimeInv, Next
    PROVE  InPlace'
<1>0. TypeOK
  BY DEF RuntimeInv
<1>1. CASE RunBlock
  <2>1. cpu'.eip = state.eip /\ pos' = 1 /\ state.eip \in Address
    BY <1>0, <1>1 DEF RunBlock, Enter, TypeOK
  <2>2. /\ fn' # None
        /\ blocks'[state.eip] = fn'
        /\ body'[fn'].path[1].at = state.eip
    BY <1>1, RunBlockEnters
  <2> QED BY <2>1, <2>2 DEF InPlace
<1>2. CASE BlockStep
  <2>1. UNCHANGED <<blocks, body, fn>> /\ pos' = pos + 1 /\ cpu'.eip = Compiled.next
    BY <1>0, <1>2, ExecutesFrame DEF BlockStep, Retired
  <2>2. /\ Entry(fn) \in Address /\ blocks[Entry(fn)] = fn /\ fn # None
        /\ body[fn].path[pos + 1].at = Compiled.next
    BY <1>2, RunningBlock DEF BlockStep
  <2> QED BY <2>1, <2>2 DEF InPlace
<1>3. CASE BlockTransfer
  <2>1. PICK t \in StaticTargets(body[fn]) : Transfer(t)
    BY <1>3 DEF BlockTransfer
  <2>2. UNCHANGED <<blocks, body>>
    BY <1>0, <1>3, ExecutesFrame DEF BlockTransfer
  <2> DEFINE next == IF t = Entry(fn) THEN fn ELSE slot[fn][t]
  <2>3. CASE next = Stub
    BY <2>1, <2>3 DEF Transfer, Exit, InPlace
  <2>4. CASE next # Stub
    <3>1. cpu' = [eip |-> Entry(next), count |-> state'.count] /\ fn' = next /\ pos' = 1
      BY <2>1, <2>4 DEF Transfer
    <3>2. t \in Address /\ next # None /\ blocks[t] = next /\ Entry(next) = t
      BY <1>3, <2>4, Landing DEF BlockTransfer
    <3> HIDE DEF next
    <3> QED BY <2>2, <3>1, <3>2 DEF InPlace, Entry
  <2> QED BY <2>3, <2>4
<1>4. CASE ~(RunBlock \/ BlockStep \/ BlockTransfer)
  <2>1. phase' # "block"
    BY <1>4
    DEF Next, Run, ClearCompiledBlocks, Patch, Running, HostStep, InterpreterRuns, BlockRuns,
        InstructionLimit, BlockDecodeError, Progress, NoProgress, Throw, Interpret, FallBack,
        EnterInterpreter, Enter, OutOfFuel, InterpreterStep, InterpreterTrap,
        InterpreterFault, BlockDynamicJump, BlockTrap, BlockMemoryFault, Exit
  <2> QED BY <2>1 DEF InPlace
<1> QED BY <1>1, <1>2, <1>3, <1>4

\* One more instruction executed, the counter goes up by one or starts again.
LEMMA LiveAfterRetire ==
    ASSUME TypeOK, NEW t \in Address, phase \in {"interpreter", "block"},
           \/ cpu' = Retired(t) /\ phase' = phase
           \/ state'.count = Retired(t).count /\ phase' \in {"idle", "loop", "returned"}
           \/ cpu'.count = Retired(t).count /\ phase' = "block"
    PROVE  /\ live \in 0 .. Wrap - 1
           /\ live' = IF live + 1 = Wrap THEN 0 ELSE live + 1
BY RetiredType DEF live, TypeOK, Cpu

\* What a block does with the counter: it retires an instruction and goes on,
\* or returns to the run loop.
LEMMA BlockRetires ==
    ASSUME RuntimeInv, Next, BlockStep \/ BlockTransfer \/ BlockDynamicJump
    PROVE  /\ phase = "block" /\ phase' \in {"block", "returned"}
           /\ ran' = Ran /\ UNCHANGED <<budget, previous, setup>>
           /\ live \in 0 .. Wrap - 1
           /\ live' = IF live + 1 = Wrap THEN 0 ELSE live + 1
<1>0. TypeOK
  BY DEF RuntimeInv
<1>1. CASE BlockStep
  <2>1. Compiled.next \in Address
    BY <1>1, RunningBlock DEF BlockStep, Machine!Instruction
  <2> QED BY <1>0, <1>1, <2>1, LiveAfterRetire DEF BlockStep, host, Next
<1>2. CASE BlockTransfer
  <2>1. PICK t \in StaticTargets(body[fn]) : Transfer(t)
    BY <1>2 DEF BlockTransfer
  <2>2. t \in Address
    BY <1>2, TransferRetires DEF BlockTransfer
  <2>3. CASE (IF t = Entry(fn) THEN fn ELSE slot[fn][t]) = Stub
    BY <1>0, <1>2, <2>1, <2>2, <2>3, LiveAfterRetire
    DEF BlockTransfer, Transfer, Exit, host, Next
  <2>4. CASE (IF t = Entry(fn) THEN fn ELSE slot[fn][t]) # Stub
    <3>1. state' = [state EXCEPT !.eip = t, !.count = Retired(t).count]
          /\ cpu'.count = state'.count /\ UNCHANGED <<phase, host>>
      BY <2>1, <2>4 DEF Transfer
    <3>2. state'.count = Retired(t).count
      BY <1>0, <3>1 DEF TypeOK
    <3> QED BY <1>0, <1>2, <2>2, <3>1, <3>2, LiveAfterRetire DEF BlockTransfer, host, Next
  <2> QED BY <2>3, <2>4
<1>3. CASE BlockDynamicJump
  <2>1. PICK t \in Address : Exit("none", Retired(t))
    BY <1>3, RunningBlock, AfterType DEF BlockDynamicJump
  <2> QED BY <1>0, <1>3, <2>1, LiveAfterRetire DEF BlockDynamicJump, Exit, host, Next
<1> QED BY <1>1, <1>2, <1>3

\* The budget: what the counter shows is never more than was executed.
LEMMA SpentStep ==
    ASSUME RuntimeInv, Next
    PROVE  Spent' /\ LimitMeansSpent'
<1> USE DEF Spent, LimitMeansSpent, live
<1>0. /\ TypeOK /\ Spent /\ LimitMeansSpent
      /\ ran \in Nat /\ ran <= MaxRan /\ fuel \in Nat /\ MaxRan \in Nat
      /\ state.count \in 0 .. Wrap - 1 /\ Wrap \in Nat
      /\ budget.limit \in Nat /\ budget.limit < MaxRan /\ budget.base \in Nat
  BY RemainingType, RuntimeAssumption DEF RuntimeInv, TypeOK
<1>1. ASSUME NEW e \in Address, NEW n \in Limits, Run(e, n)
      PROVE  Spent' /\ LimitMeansSpent'
  <2>1. state'.count = state.count /\ budget'.base = state.count /\ ran' = 0
    BY <1>0, <1>1 DEF Run, TypeOK
  <2> QED BY <1>0, <1>1, <2>1 DEF Run
<1>2. CASE ClearCompiledBlocks \/ Patch
  BY <1>0, <1>2 DEF ClearCompiledBlocks, Patch, host, engine
<1>3. CASE InstructionLimit
  <2>1. phase = "loop" /\ phase' = "idle" /\ Remaining(state.count) = 0
        /\ UNCHANGED <<ran, budget>>
    BY <1>3 DEF InstructionLimit, Exit, host
  <2>2. ran < MaxRan => state.count <= budget.base + ran
    BY <1>0, <2>1
  <2>3. ran >= budget.limit
    BY <1>0, <2>1, <2>2, RemainingType
  <2> QED BY <2>1, <2>3
<1>4. CASE Interpret \/ FallBack
  <2>1. /\ phase = "loop" /\ phase' = "interpreter" /\ fuel' = Remaining(state.count) % Wrap
        /\ UNCHANGED <<ran, budget, result>>
    BY <1>4 DEF Interpret, FallBack, EnterInterpreter, Enter
  <2>2. ran < MaxRan => ran + Remaining(state.count) >= budget.limit
    BY <1>0, <2>1, RemainingType
  <2>3. budget.limit < Wrap => fuel' = Remaining(state.count)
    <3>1. Remaining(state.count) \in 0 .. budget.limit
      BY <1>0, RemainingType
    <3> QED BY <1>0, <2>1, <3>1, FuelValue
  <2> QED BY <1>0, <2>1, <2>2, <2>3
<1>5. CASE RunBlock
  BY <1>0, <1>5 DEF RunBlock, Enter
<1>6. CASE BlockDecodeError \/ NoProgress \/ Progress
  BY <1>0, <1>6 DEF BlockDecodeError, NoProgress, Progress, Throw, host
<1>7. CASE OutOfFuel
  BY <1>0, <1>7 DEF OutOfFuel, Exit, host
<1>8. CASE InterpreterStep
  <2>1. /\ phase = "interpreter" /\ fuel' = fuel - 1 /\ ran' = Ran
        /\ UNCHANGED <<phase, budget, result>>
    BY <1>8 DEF InterpreterStep, host
  <2>2. ran' < MaxRan => ran < MaxRan /\ ran' = ran + 1
    BY <1>0, <2>1 DEF Ran
  <2> QED BY <1>0, <2>1, <2>2, IdleStep DEF RuntimeInv, IdleMeansReturned
<1>9. CASE InterpreterTrap \/ InterpreterFault \/ BlockTrap \/ BlockMemoryFault
  BY <1>9 DEF InterpreterTrap, InterpreterFault, BlockTrap, BlockMemoryFault, Exit
<1>10. CASE BlockStep \/ BlockTransfer \/ BlockDynamicJump
  <2>1. /\ phase = "block" /\ phase' \in {"block", "returned"}
        /\ ran' = Ran /\ UNCHANGED budget
        /\ live \in 0 .. Wrap - 1
        /\ live' = IF live + 1 = Wrap THEN 0 ELSE live + 1
    BY <1>10, BlockRetires
  <2>2. ran' < MaxRan => ran < MaxRan /\ ran' = ran + 1
    BY <1>0, <2>1 DEF Ran
  <2> HIDE DEF live
  <2>3. ran' < MaxRan => live' <= budget.base + ran'
    BY <1>0, <2>1, <2>2
  <2> QED BY <2>1, <2>3
<1> QED BY <1>1, <1>2, <1>3, <1>4, <1>5, <1>6, <1>7, <1>8, <1>9, <1>10
        DEF Next, Running, HostStep, InterpreterRuns, BlockRuns

\* Progress: a block that returned has moved the counter, and before a whole
\* period it cannot be back where it was.
LEMMA ProgressingStep ==
    ASSUME RuntimeInv, Next
    PROVE  Progressing'
<1>0. /\ ran \in Nat /\ ran <= MaxRan /\ Wrap \in Nat /\ Wrap <= MaxRan /\ MaxRan \in Nat
      /\ previous \in 0 .. Wrap - 1 /\ Progressing
  BY RuntimeAssumption DEF RuntimeInv, TypeOK
<1>1. CASE RunBlock
  <2>1. /\ phase' = "block" /\ previous' = state.count /\ cpu'.count = state.count
        /\ UNCHANGED ran /\ state.count \in Nat
    BY <1>1 DEF RunBlock, Enter, RuntimeInv, TypeOK
  <2>2. 0 \in 0 .. ran' /\ live' = previous' + 0
    BY <1>0, <2>1 DEF live
  <2> QED BY <2>1, <2>2 DEF Progressing, Ahead
<1>2. CASE BlockStep \/ BlockTransfer \/ BlockDynamicJump
  <2>1. /\ phase = "block" /\ phase' \in {"block", "returned"}
        /\ ran' = Ran /\ UNCHANGED previous
        /\ live \in 0 .. Wrap - 1
        /\ live' = IF live + 1 = Wrap THEN 0 ELSE live + 1
    BY <1>2, BlockRetires
  <2>2. SUFFICES ASSUME ran' < Wrap
                 PROVE  Ahead(1)'
    <3>1. Ahead(1)' => Ahead(0)'
      BY <1>0, <2>1 DEF Ahead, Ran
    <3> QED BY <2>1, <3>1 DEF Progressing
  <2>3. ran < Wrap /\ ran' = ran + 1
    BY <1>0, <2>1, <2>2 DEF Ran
  <2>4. PICK d \in 0 .. ran : live = previous + d \/ live = previous + d - Wrap
    BY <1>0, <2>1, <2>3 DEF Progressing, Ahead
  <2>5. d + 1 \in 1 .. ran'
    BY <1>0, <2>3
  <2>6. live' = previous' + (d + 1) \/ live' = previous' + (d + 1) - Wrap
    BY <1>0, <2>1, <2>2, <2>3, <2>4
  <2> QED BY <2>5, <2>6 DEF Ahead
<1>3. CASE ~(RunBlock \/ BlockStep \/ BlockTransfer \/ BlockDynamicJump)
  <2>1. phase' \notin {"block", "returned"}
    BY <1>3
    DEF Next, Run, ClearCompiledBlocks, Patch, Running, HostStep, InterpreterRuns, BlockRuns,
        InstructionLimit, BlockDecodeError, Progress, NoProgress, Throw, Interpret, FallBack,
        EnterInterpreter, Enter, OutOfFuel, InterpreterStep, InterpreterTrap,
        InterpreterFault, BlockTrap, BlockMemoryFault, Exit
  <2> QED BY <2>1 DEF Progressing
<1> QED BY <1>1, <1>2, <1>3

\* Interpreter mode: what was executed and the fuel make up the limit.
LEMMA ExactStep ==
    ASSUME RuntimeInv, Next
    PROVE  Exact' /\ InterpreterHonoursLimit'
<1> SUFFICES ASSUME ~setup.compiled
             PROVE  Exact' /\ InterpreterHonoursLimit'
  BY DEF Next, Exact, InterpreterHonoursLimit
<1> USE DEF Exact, InterpreterHonoursLimit
<1>0. /\ TypeOK /\ UNCHANGED setup
      /\ phase \notin {"block", "returned"}
      /\ phase = "loop" => ran = 0 /\ state.count = budget.base
      /\ phase = "interpreter" => /\ ran + fuel <= budget.limit
                                  /\ budget.limit < Wrap => ran + fuel = budget.limit
      /\ ran <= budget.limit
      /\ phase = "idle" /\ result = "limit" /\ budget.limit < Wrap => ran = budget.limit
      /\ ran \in Nat /\ fuel \in Nat /\ MaxRan \in Nat /\ Wrap \in Nat /\ state.count \in 0 .. Wrap - 1
      /\ budget.limit \in Nat /\ budget.limit < MaxRan
  BY RemainingType, RuntimeAssumption DEF RuntimeInv, TypeOK, Next
<1>1. ASSUME NEW e \in Address, NEW n \in Limits, Run(e, n)
      PROVE  Exact' /\ InterpreterHonoursLimit'
  <2>1. /\ state'.count = state.count /\ budget'.base = state.count /\ budget'.limit = n
        /\ ran' = 0 /\ phase' = "loop" /\ n \in Nat
    BY <1>0, <1>1, RuntimeAssumption DEF Run, TypeOK
  <2> QED BY <1>0, <2>1
<1>2. CASE ClearCompiledBlocks \/ Patch
  BY <1>0, <1>2 DEF ClearCompiledBlocks, Patch, host, engine
<1>3. CASE InstructionLimit
  <2>1. phase = "loop" /\ phase' = "idle" /\ Remaining(state.count) = 0
        /\ UNCHANGED <<ran, budget>>
    BY <1>3 DEF InstructionLimit, Exit, host
  <2>2. ran = budget.limit
    BY <1>0, <2>1, RemainingType
  <2> QED BY <1>0, <2>1, <2>2
<1>4. CASE Interpret
  <2>1. /\ phase = "loop" /\ phase' = "interpreter" /\ fuel' = Remaining(state.count) % Wrap
        /\ UNCHANGED <<ran, budget, result>>
    BY <1>4 DEF Interpret, EnterInterpreter, Enter
  <2>2. Remaining(state.count) = budget.limit
    BY <1>0, <2>1, RemainingType
  <2>3. /\ fuel' \in Nat /\ fuel' <= budget.limit
        /\ budget.limit < Wrap => fuel' = budget.limit
    BY <1>0, <2>1, <2>2, FuelValue
  <2> QED BY <1>0, <2>1, <2>3
<1>5. CASE OutOfFuel \/ InterpreterFault
  BY <1>0, <1>5 DEF OutOfFuel, InterpreterFault, Exit, host
<1>6. CASE InterpreterStep
  BY <1>0, <1>6 DEF InterpreterStep, host, Ran
<1>7. CASE InterpreterTrap
  BY <1>0, <1>7 DEF InterpreterTrap, Exit, host, Ran
<1>8. ~(RunBlock \/ FallBack \/ BlockDecodeError \/ Progress \/ NoProgress \/ BlockRuns)
  BY <1>0
  DEF RunBlock, FallBack, BlockDecodeError, Progress, NoProgress, BlockRuns, BlockStep,
      BlockTransfer, BlockDynamicJump, BlockTrap, BlockMemoryFault
<1> QED BY <1>1, <1>2, <1>3, <1>4, <1>5, <1>6, <1>7, <1>8
        DEF Next, Running, HostStep, InterpreterRuns

-----------------------------------------------------------------------------
\* The initial states.
LEMMA RuntimeInit == Init => RuntimeInv
<1> SUFFICES ASSUME Init
             PROVE  RuntimeInv
  OBVIOUS
<1>1. PICK e \in Address, n \in setup.counts :
        /\ state = [eip |-> e, count |-> n, stop |-> "none"]
        /\ cpu = [eip |-> e, count |-> n]
        /\ budget = [base |-> n, limit |-> 0]
        /\ previous = n
  BY DEF Init
<1>2. P!CacheInv
  BY CacheStarts, CacheInit
<1>3. n \in 0 .. Wrap - 1
  BY RuntimeAssumption DEF Init
<1>4. TypeOK
  <2>1. Cache!TypeOK
    BY <1>2 DEF P!CacheInv, P!TypeOK, Cache!TypeOK
  <2>2. HostTyped
    BY <1>1, <1>3, RuntimeAssumption DEF Init, HostTyped, Cpu, Stops
  <2> QED BY <2>1, <2>2, TypeParts
<1> QED BY <1>1, <1>2, <1>4
        DEF Init, RuntimeInv, IdleMeansReturned, InPlace, Spent, LimitMeansSpent,
            Progressing, Exact, InterpreterHonoursLimit

\* A step of something else.
LEMMA RuntimeStutter == RuntimeInv /\ UNCHANGED vars => RuntimeInv'
<1> SUFFICES ASSUME RuntimeInv, UNCHANGED vars
             PROVE  RuntimeInv'
  OBVIOUS
<1> USE DEF vars, cache, engine, host
<1>1. P!CacheInv'
  BY CacheStep, CacheUntouched DEF RuntimeInv
<1>2. TypeOK'
  <2>1. Cache!TypeOK'
    BY <1>1 DEF P!CacheInv, P!TypeOK, Cache!TypeOK
  <2>2. HostTyped'
    BY DEF RuntimeInv, TypeOK, HostTyped
  <2> QED BY <2>1, <2>2 DEF TypeOK, HostTyped
<1>3. IdleMeansReturned' /\ InPlace'
  BY DEF RuntimeInv, IdleMeansReturned, InPlace
<1>4. Spent' /\ LimitMeansSpent' /\ Progressing'
  BY DEF RuntimeInv, Spent, LimitMeansSpent, Progressing, Ahead, live
<1>5. Exact' /\ InterpreterHonoursLimit'
  BY DEF RuntimeInv, Exact, InterpreterHonoursLimit
<1> QED BY <1>1, <1>2, <1>3, <1>4, <1>5 DEF RuntimeInv

(* The inductive invariant holds in every reachable state.                  *)
THEOREM RuntimeInvariance == Spec => []RuntimeInv
<1>1. RuntimeInv /\ [Next]_vars => RuntimeInv'
  BY TypeStep, IdleStep, InPlaceStep, SpentStep, ProgressingStep, ExactStep, RuntimeStutter
  DEF RuntimeInv
<1> QED BY RuntimeInit, <1>1, PTL DEF Spec

-----------------------------------------------------------------------------
(* The variables keep their types: the block that runs has an instruction   *)
(* at its position, and the cache under the run loop is well formed.        *)
THEOREM RuntimeTyped == Spec => []TypeOK
<1>1. RuntimeInv => TypeOK
  BY DEF RuntimeInv
<1> QED BY <1>1, RuntimeInvariance, PTL

(* The interpreter runs at most maxInstructions and says "limit" at exactly *)
(* that many, for every width of the counter and every count it starts at.  *)
THEOREM InterpreterLimited == Spec => []InterpreterHonoursLimit
<1>1. RuntimeInv => InterpreterHonoursLimit
  BY DEF RuntimeInv
<1> QED BY <1>1, RuntimeInvariance, PTL

(* "limit" is never reported before maxInstructions were executed, by any   *)
(* engine or any mixture of them, however often the counter wraps.          *)
THEOREM LimitSpent == Spec => []LimitMeansSpent
<1>1. RuntimeInv => LimitMeansSpent
  BY DEF RuntimeInv
<1> QED BY <1>1, RuntimeInvariance, PTL

(* The block that runs is what memory holds at its entry, unless that code  *)
(* was written since it was compiled.                                       *)
THEOREM BlocksCurrentWhileRunning == Spec => []BlockRunsWhatMemoryHolds
<1>1. RuntimeInv => BlockRunsWhatMemoryHolds
  BY RunningBlock DEF BlockRunsWhatMemoryHolds, Stale
<1> QED BY <1>1, RuntimeInvariance, PTL

(* run throws where the block at the pointer cannot be decoded and nowhere  *)
(* else, unless a whole period of the counter was executed.                 *)
THEOREM ThrowsJustified == Spec => ThrowsOnlyUndecodable
<1> DEFINE Justified ==
        result = "running" /\ result' = "threw" /\ ran < Wrap =>
            Blocks[image][state.eip].end = "decodeFault"
<1>1. RuntimeInv /\ [Next]_vars => [Justified]_vars
  <2> SUFFICES ASSUME RuntimeInv, Next,
                      result = "running", result' = "threw", ran < Wrap
               PROVE  Blocks[image][state.eip].end = "decodeFault"
    OBVIOUS
  <2>1. CASE BlockDecodeError
    <3>1. Decode[Blocks[image][state.eip]].kind = "fault"
      BY <2>1 DEF BlockDecodeError, Cache!DecodeError
    <3>2. Blocks[image][state.eip] \in Content
      BY BlocksType DEF RuntimeInv, TypeOK, Image
    <3>3. Kind(Blocks[image][state.eip]) = "fault"
      BY <3>1, <3>2 DEF Decode
    <3> QED BY <3>3 DEF Kind
  <2>2. CASE NoProgress
    <3>1. phase = "returned" /\ state.count = previous
      BY <2>2 DEF NoProgress
    <3>2. PICK d \in 1 .. ran : state.count = previous + d \/ state.count = previous + d - Wrap
      BY <3>1 DEF RuntimeInv, Progressing, Ahead, live
    <3>3. previous \in 0 .. Wrap - 1 /\ ran \in Nat /\ Wrap \in Nat
      BY RuntimeAssumption DEF RuntimeInv, TypeOK
    <3> QED BY <3>1, <3>2, <3>3
  <2>3. CASE ~(BlockDecodeError \/ NoProgress)
    <3>1. result' # "threw"
      BY <2>3
      DEF Next, Run, ClearCompiledBlocks, Patch, Running, HostStep, InterpreterRuns, BlockRuns,
          InstructionLimit, Progress, Interpret, RunBlock, FallBack, EnterInterpreter, Enter,
          OutOfFuel, InterpreterStep, InterpreterTrap, InterpreterFault, BlockStep,
          BlockTransfer, Transfer, BlockDynamicJump, BlockTrap, BlockMemoryFault, Exit
    <3> QED BY <3>1
  <2> QED BY <2>1, <2>2, <2>3
<1> QED BY <1>1, RuntimeInvariance, PTL DEF Spec, ThrowsOnlyUndecodable

-----------------------------------------------------------------------------
\* The refinement.  An engine at work has the machine's pointer and counter;
\* between engines the state memory has them.

\* An exit keeps the pointer and the counter, and may end the run.
LEMMA ExitStops ==
    ASSUME RuntimeInv, NEW stop, stop # "none", NEW c, Exit(stop, c),
           \/ c = cpu /\ phase \in {"interpreter", "block"}
           \/ c = state /\ phase = "loop",
           UNCHANGED image
    PROVE  Machine!Stop(stop)
<1>1. result = "running"
  BY DEF RuntimeInv, IdleMeansReturned
<1> QED BY <1>1 DEF Exit, Machine!Stop

\* A retired instruction, fetched from memory as it is.
LEMMA RetireStep ==
    ASSUME RuntimeInv, NEW t, phase \in {"interpreter", "block"},
           Machine!Retires(Fetched), t \in Machine!After(Fetched),
           image' \in IF Fetched.op \in Machine!Stores THEN Image ELSE {image},
           UNCHANGED result,
           \/ /\ phase' \in {"interpreter", "block"}
              /\ cpu'.eip = t /\ cpu'.count = Machine!Increment(cpu.count)
           \/ /\ phase' = "returned"
              /\ state'.eip = t /\ state'.count = Machine!Increment(cpu.count)
    PROVE  Machine!Next
<1>1. result = "running"
  BY DEF RuntimeInv, IdleMeansReturned
<1>2. Machine!Retire
  BY <1>1 DEF Machine!Retire, Machine!Increment, Machine!Retires, Machine!After, Machine!Stores, Fetched
<1> QED BY <1>2 DEF Machine!Next

\* Every step is a step of the machine or none, action by action.
LEMMA MachineStep ==
    ASSUME RuntimeInv, Next, ~Stale
    PROVE  [Machine!Next]_(Machine!vars)
<1>0. TypeOK
  BY DEF RuntimeInv
<1>1. ASSUME NEW e \in Address, NEW n \in Limits, Run(e, n)
      PROVE  Machine!Next
  <2>1. /\ phase = "idle" /\ phase' = "loop" /\ result' = "running" /\ UNCHANGED image
        /\ state'.eip = e /\ state'.count = state.count
    BY <1>0, <1>1 DEF Run, TypeOK
  <2>2. result # "running"
    BY <2>1 DEF RuntimeInv, IdleMeansReturned
  <2>3. Machine!Begin
    BY <2>1, <2>2 DEF Machine!Begin
  <2> QED BY <2>3 DEF Machine!Next
<1>2. CASE ClearCompiledBlocks \/ Progress
  BY <1>2 DEF ClearCompiledBlocks, Progress, host, engine, Machine!vars
<1>3. CASE Patch
  <2>1. phase = "idle" /\ image' \in setup.images /\ UNCHANGED <<state, phase, result>>
    BY <1>3 DEF Patch, Stores
  <2>2. result # "running" /\ image' \in Image
    BY <1>0, <2>1 DEF RuntimeInv, IdleMeansReturned, TypeOK, Image
  <2>3. Machine!Patch
    BY <2>1, <2>2 DEF Machine!Patch
  <2> QED BY <2>3 DEF Machine!Next
<1>4. CASE Interpret \/ RunBlock \/ FallBack
  <2>1. PICK who \in {"interpreter", "block"} : Enter(who)
    BY <1>4 DEF Interpret, RunBlock, FallBack, EnterInterpreter
  <2> QED BY <2>1 DEF Enter, Machine!vars
<1>5. CASE InstructionLimit \/ OutOfFuel
  <2>1. Machine!Stop("limit")
    BY <1>5, ExitStops DEF InstructionLimit, OutOfFuel
  <2> QED BY <2>1 DEF Machine!GiveUp, Machine!Next
<1>6. CASE BlockDecodeError \/ NoProgress
  <2>1. /\ phase \in {"loop", "returned"} /\ phase' = "idle" /\ result' = "threw"
        /\ UNCHANGED <<image, state>>
    BY <1>6 DEF BlockDecodeError, NoProgress, Throw
  <2>2. result = "running"
    BY <2>1 DEF RuntimeInv, IdleMeansReturned
  <2>3. Machine!Stop("threw")
    BY <2>1, <2>2 DEF Machine!Stop
  <2> QED BY <2>3 DEF Machine!GiveUp, Machine!Next
<1>7. CASE InterpreterStep
  <2>1. PICK t \in Machine!After(Fetched) : cpu' = Retired(t)
    BY <1>7 DEF InterpreterStep
  <2>2. image' \in IF Fetched.op \in Machine!Stores THEN Image ELSE {image}
    BY <1>0, <1>7, ExecutesFrame DEF InterpreterStep, TypeOK, Image
  <2> QED BY <1>7, <2>1, <2>2, RetireStep DEF InterpreterStep, Retired
<1>8. CASE InterpreterTrap \/ BlockTrap
  <2>1. /\ phase \in {"interpreter", "block"} /\ Fetched.op = "trap" /\ UNCHANGED image
        /\ Exit("trap", Retired(Fetched.next))
    BY <1>8, RunningBlock DEF InterpreterTrap, BlockTrap
  <2>2. result = "running"
    BY <2>1 DEF RuntimeInv, IdleMeansReturned
  <2>3. Machine!Trap
    BY <2>1, <2>2 DEF Exit, Retired, Fetched, Machine!Trap, Machine!Increment
  <2> QED BY <2>3 DEF Machine!Next
<1>9. CASE InterpreterFault
  <2>1. \/ Fetched.op = "unsupported" /\ Machine!Stop("unsupported")
        \/ Fetched.op = "unreadable" /\ Machine!Stop("decodeFault")
        \/ Fetched.op \in Machine!Accesses /\ Machine!Stop("memoryFault")
    BY <1>9, ExitStops DEF InterpreterFault
  <2>2. phase = "interpreter"
    BY <1>9 DEF InterpreterFault
  <2> QED BY <2>1, <2>2
          DEF Fetched, Machine!Unsupported, Machine!DecodeFault, Machine!MemoryFault,
              Machine!Accesses, Machine!Stores, Machine!Next
<1>10. CASE BlockMemoryFault
  <2>1. phase = "block" /\ Fetched.op \in Machine!Accesses /\ Machine!Stop("memoryFault")
    BY <1>10, RunningBlock, ExitStops DEF BlockMemoryFault
  <2> QED BY <2>1 DEF Fetched, Machine!MemoryFault, Machine!Accesses, Machine!Stores, Machine!Next
<1>11. CASE BlockStep
  <2>1. Compiled = Fetched /\ Compiled.op \in Straight
    BY <1>11, RunningBlock DEF BlockStep
  <2>2. Machine!Retires(Fetched) /\ Compiled.next \in Machine!After(Fetched)
    BY <2>1 DEF Straight, Machine!Retires, Machine!After, Machine!Dynamic
  <2>3. image' \in IF Fetched.op \in Machine!Stores THEN Image ELSE {image}
    BY <1>0, <1>11, <2>1, ExecutesFrame DEF BlockStep, TypeOK, Image
  <2> QED BY <1>11, <2>2, <2>3, RetireStep DEF BlockStep, Retired
<1>12. CASE BlockTransfer
  <2>1. PICK t \in Machine!After(Compiled) \cap StaticTargets(body[fn]) : Transfer(t)
    BY <1>12 DEF BlockTransfer
  <2>2. phase = "block" /\ Compiled = Fetched /\ Machine!Retires(Fetched)
    BY <1>12, <2>1, RunningBlock, TransferRetires DEF BlockTransfer
  <2>3. image' \in IF Fetched.op \in Machine!Stores THEN Image ELSE {image}
    BY <1>0, <1>12, <2>2, ExecutesFrame DEF BlockTransfer, TypeOK, Image
  <2> DEFINE next == IF t = Entry(fn) THEN fn ELSE slot[fn][t]
  <2>4. CASE next = Stub
    BY <2>1, <2>2, <2>3, <2>4, RetireStep DEF Transfer, Exit, Retired
  <2>5. CASE next # Stub
    <3>1. Entry(next) = t
      BY <2>1, <2>2, <2>5, Landing
    <3>2. /\ state' = [state EXCEPT !.eip = t, !.count = Retired(t).count]
          /\ cpu' = [eip |-> Entry(next), count |-> state'.count]
          /\ UNCHANGED <<phase, result>>
      BY <2>1, <2>5 DEF Transfer
    <3>3. cpu'.eip = t /\ cpu'.count = Machine!Increment(cpu.count)
      BY <1>0, <3>1, <3>2 DEF TypeOK, Retired
    <3> QED BY <2>1, <2>2, <2>3, <3>2, <3>3, RetireStep
  <2> QED BY <2>4, <2>5
<1>13. CASE BlockDynamicJump
  <2>1. PICK t \in Machine!After(Compiled) : Exit("none", Retired(t))
    BY <1>13 DEF BlockDynamicJump
  <2>2. phase = "block" /\ Compiled = Fetched /\ Fetched.op \in Machine!Dynamic
    BY <1>13, RunningBlock DEF BlockDynamicJump
  <2>3. Machine!Retires(Fetched)
    BY <2>2 DEF Machine!Retires, Machine!Dynamic
  <2>4. image' \in IF Fetched.op \in Machine!Stores THEN Image ELSE {image}
    BY <1>0, <1>13, <2>2, ExecutesFrame DEF BlockDynamicJump, TypeOK, Image
  <2> QED BY <2>1, <2>2, <2>3, <2>4, RetireStep DEF Exit, Retired
<1> QED BY <1>1, <1>2, <1>3, <1>4, <1>5, <1>6, <1>7, <1>8, <1>9, <1>10, <1>11, <1>12, <1>13
        DEF Next, Running, HostStep, InterpreterRuns, BlockRuns

(* Interpreter and compiled blocks execute the guest machine: each          *)
(* instruction once, in order, from memory as it is, with the pointer and   *)
(* the counter of every exit where the machine is; only a block that was    *)
(* written since it was compiled may differ.                                *)
THEOREM MachineImplemented == Spec => ImplementsMachine
<1>1. Init => Machine!Init
  <2> SUFFICES ASSUME Init
               PROVE  Machine!Init
    OBVIOUS
  <2>1. TypeOK
    BY RuntimeInit DEF RuntimeInv
  <2> QED BY <2>1 DEF Init, TypeOK, Stops, Image, Machine!Init, Machine!Outcomes
<1>2. RuntimeInv /\ [Next]_vars => [~Stale => Machine!Next]_(Machine!vars)
  <2>1. CASE UNCHANGED vars
    BY <2>1 DEF vars, engine, Machine!vars
  <2> QED BY <2>1, MachineStep
<1> QED BY <1>1, <1>2, RuntimeInvariance, PTL DEF Spec, ImplementsMachine

-----------------------------------------------------------------------------
\* A careful embedder clears the cache before it runs new code, and its
\* programs do not store at all: then no block is stale.
Careful ==
    /\ setup.clears
    /\ \A m \in setup.images : \A a \in Address : m[a].op \notin Machine!Stores

CleanRuns == Careful /\ phase # "idle" => written = {}

\* Nothing that runs was written, with a careful embedder.
LEMMA CleanStep ==
    ASSUME RuntimeInv, CleanRuns, Next
    PROVE  CleanRuns'
<1> SUFFICES ASSUME Careful, phase' # "idle"
             PROVE  written' = {}
  BY DEF CleanRuns, Careful, Next
<1>1. ASSUME NEW e \in Address, NEW n \in Limits, Run(e, n)
      PROVE  written' = {}
  BY <1>1 DEF Run, cache, Careful
<1>2. CASE ClearCompiledBlocks \/ Patch
  BY <1>2 DEF ClearCompiledBlocks, Patch
<1>3. CASE HostStep
  <2>1. phase # "idle" /\ written = {}
    BY <1>3
    DEF HostStep, CleanRuns, InstructionLimit, Interpret, RunBlock, FallBack,
        BlockDecodeError, Progress, NoProgress, EnterInterpreter, Enter
  <2>2. CASE RunBlock
    BY <2>1, <2>2 DEF RunBlock, Cache!Hit, Cache!Compile
  <2>3. CASE FallBack
    BY <2>1, <2>3 DEF FallBack, Cache!Unavailable
  <2>4. CASE ~(RunBlock \/ FallBack)
    BY <1>3, <2>1, <2>4
    DEF HostStep, InstructionLimit, Interpret, BlockDecodeError, Progress, NoProgress,
        Throw, Exit, cache
  <2> QED BY <2>2, <2>3, <2>4
<1>4. ASSUME NEW i, Executes(i), i = Fetched, cpu.eip \in Address, phase # "idle"
      PROVE  written' = {}
  <2>1. image \in setup.images
    BY DEF RuntimeInv, TypeOK
  <2>2. i.op \notin Machine!Stores
    BY <1>4, <2>1 DEF Careful, Fetched
  <2>3. Stores(image)
    BY <1>4, <2>2 DEF Executes
  <2>4. UNCHANGED written
    BY <2>3 DEF Stores, cache
  <2> QED BY <1>4, <2>4 DEF CleanRuns
<1>5. cpu.eip \in Address
  BY DEF RuntimeInv, TypeOK, Cpu
<1>6. CASE InterpreterStep
  BY <1>4, <1>5, <1>6 DEF InterpreterStep
<1>7. CASE BlockStep \/ BlockTransfer \/ BlockDynamicJump
  <2>1. phase = "block" /\ Executes(Compiled)
    BY <1>7 DEF BlockStep, BlockTransfer, BlockDynamicJump
  <2>2. ~Stale
    BY <2>1 DEF Stale, CleanRuns
  <2> QED BY <1>4, <1>5, <2>1, <2>2, RunningBlock
<1>8. CASE OutOfFuel \/ InterpreterTrap \/ InterpreterFault \/ BlockTrap \/ BlockMemoryFault
  BY <1>8
  DEF CleanRuns, cache, OutOfFuel, InterpreterTrap, InterpreterFault, BlockTrap, BlockMemoryFault
<1> QED BY <1>1, <1>2, <1>3, <1>6, <1>7, <1>8 DEF Next, Running, InterpreterRuns, BlockRuns

(* With a careful embedder every mode executes the guest machine, without   *)
(* exception: clearCompiledBlocks is all that compiled blocks ask for when  *)
(* new code is loaded between runs.                                         *)
THEOREM CarefulRunsMachine == Spec /\ Careful => Machine!Spec
<1> DEFINE Inv == RuntimeInv /\ CleanRuns /\ Careful
<1>1. Init /\ Careful => Inv /\ Machine!Init
  <2> SUFFICES ASSUME Init, Careful
               PROVE  Inv /\ Machine!Init
    OBVIOUS
  <2>1. TypeOK
    BY RuntimeInit DEF RuntimeInv
  <2> QED BY <2>1, RuntimeInit
          DEF Init, TypeOK, Stops, Image, Machine!Init, Machine!Outcomes, CleanRuns
<1>2. Inv /\ [Next]_vars => Inv'
  <2> SUFFICES ASSUME Inv, [Next]_vars
               PROVE  Inv'
    OBVIOUS
  <2>1. CASE Next
    <3>1. RuntimeInv'
      BY <2>1, TypeStep, IdleStep, InPlaceStep, SpentStep, ProgressingStep, ExactStep
      DEF RuntimeInv
    <3>2. Careful'
      BY <2>1 DEF Next, Careful
    <3> QED BY <2>1, <3>1, <3>2, CleanStep
  <2>2. CASE UNCHANGED vars
    BY <2>2, RuntimeStutter DEF vars, cache, CleanRuns, Careful
  <2> QED BY <2>1, <2>2
<1>3. Inv /\ [Next]_vars => [Machine!Next]_(Machine!vars)
  <2> SUFFICES ASSUME Inv, [Next]_vars
               PROVE  [Machine!Next]_(Machine!vars)
    OBVIOUS
  <2>1. ~Stale
    BY DEF Stale, CleanRuns
  <2>2. CASE UNCHANGED vars
    BY <2>2 DEF vars, engine, Machine!vars
  <2> QED BY <2>1, <2>2, MachineStep
<1> HIDE DEF Inv
<1> QED BY <1>1, <1>2, <1>3, PTL DEF Spec, Machine!Spec
=============================================================================
