----------------------------- MODULE BlockCache -----------------------------
(***************************************************************************)
(* The compiled block cache and the link tables of the blocks in it.       *)
(*                                                                         *)
(* A handle is one compiled WebAssembly module: it keeps the code it was   *)
(* compiled from and a link table with one slot per static jump target     *)
(* outside the module.  A slot holds the module's own stub, which exits to *)
(* the host, or the block function of another handle, which the jump then  *)
(* tail-calls.  The cache keeps blocks by entry EIP and, in reverse, the   *)
(* tables that have a slot for each target EIP.                            *)
(*                                                                         *)
(* The process is single threaded: one public call is one action.  A table *)
(* is identified with the handle that owns it; a handle without targets    *)
(* has no table.  An absent entry of the reverse index is the empty set.   *)
(***************************************************************************)
CONSTANTS
    Eip,      \* the block entry points of interest
    Handle,   \* identities of compiled modules alive at a time
    Code,     \* the contents guest memory can hold at an entry
    Images,   \* the guest memories that occur, each seen from every entry
    Decode,   \* what decoding and compiling a content gives
    None,     \* undefined
    Stub,     \* the fallback function of a slot
    Threw     \* the call ended with an exception

\* "block": at least one instruction, no fault, accepted by the code
\* generator; "empty": no instruction before an unsupported one;
\* "uncompilable": rejected with UnsupportedWasmCodegenError;
\* "fault": the block ends in a decode fault.
Kinds == {"block", "empty", "uncompilable", "fault"}

ASSUME DecodeAssumption ==
    Decode \in [Code -> [kind : Kinds, targets : SUBSET Eip]]

ASSUME ImagesAssumption == Images \subseteq [Eip -> Code]

ASSUME DistinctAssumption ==
    /\ None \notin Handle \cup Code \cup {Stub, Threw}
    /\ Stub \notin Handle \cup Code
    /\ Threw \notin Handle

VARIABLES
    code,        \* guest memory, seen from each entry
    blocks,      \* #blocksByEip
    body,        \* the content each handle was last compiled from, or None
    targets,     \* the targets of each handle's link table
    slot,        \* what each slot of each link table holds
    dependents,  \* #dependentTablesByTargetEip
    answer,      \* what the last getOrCompile gave its caller
    written      \* history: entries whose code changed since it was compiled

vars == <<code, blocks, body, targets, slot, dependents, answer, written>>

TypeOK ==
    /\ code \in [Eip -> Code]
    /\ blocks \in [Eip -> Handle \cup {None}]
    /\ body \in [Handle -> Code \cup {None}]
    /\ targets \in [Handle -> SUBSET Eip]
    /\ slot \in [Handle -> [Eip -> Handle \cup {Stub}]]
    /\ dependents \in [Eip -> SUBSET Handle]
    /\ answer \in Handle \cup {None, Threw}
    /\ written \in SUBSET Eip

Init ==
    /\ code \in Images
    /\ blocks = [e \in Eip |-> None]
    /\ body = [h \in Handle |-> None]
    /\ targets = [h \in Handle |-> {}]
    /\ slot = [h \in Handle |-> [t \in Eip |-> Stub]]
    /\ dependents = [t \in Eip |-> {}]
    /\ answer = None
    /\ written = {}

-----------------------------------------------------------------------------
\* A jump of a module to one of its own entries is a direct call, not a link.
LinkTargets(e) == Decode[code[e]].targets \ {e}

\* Faults of the helpers that the checks must notice, here and below: a new
\* table whose slots are left undefined, or are not linked to the blocks
\* already cached; a table left in the reverse index; a missed installTarget.
NewTableUnset(T, m) == [t \in Eip |-> IF t \in T THEN m[t] ELSE Stub]

NewTableAllStubs(T, m) == [t \in Eip |-> Stub]

UnregisterNothing(h) == dependents

SetOnlyStubs(e, f, table, deps) ==
    [h \in Handle |->
        IF h \in deps[e] /\ f = Stub THEN [table[h] EXCEPT ![e] = f] ELSE table[h]]

\* registerDependentTable, the reverse index: h joins the dependents of all
\* its targets.
RegisterTable(h, T) ==
    [t \in Eip |-> dependents[t] \cup (IF t \in T THEN {h} ELSE {})]

\* unregisterDependentTable: h leaves the dependents of all its targets.
UnregisterTable(h) ==
    [t \in Eip |-> dependents[t] \ (IF t \in targets[h] THEN {h} ELSE {})]

\* The table of a new module: stubs everywhere, then the functions of the
\* targets that the map m already holds.
NewTable(T, m) ==
    [t \in Eip |-> IF t \in T /\ m[t] # None THEN m[t] ELSE Stub]

\* installTarget and invalidateTarget on every table that depends on e.
SetInDependents(e, f, table, deps) ==
    [h \in Handle |->
        IF h \in deps[e] THEN [table[h] EXCEPT ![e] = f] ELSE table[h]]

-----------------------------------------------------------------------------
\* getOrCompile finds the block.
Hit(e) ==
    /\ blocks[e] # None
    /\ answer' = blocks[e]
    /\ UNCHANGED <<code, blocks, body, targets, slot, dependents, written>>

\* A new module takes the identity of none that the cache, a table of a
\* cached block or a caller still refers to.
Cached == {blocks[e] : e \in {x \in Eip : blocks[x] # None}}

Free ==
    {h \in Handle \ (Cached \cup {answer}) :
        \A t \in Eip : h \notin dependents[t] /\ \A g \in Cached : slot[g][t] # h}

\* getOrCompile decodes and compiles, registers the new table, links it to
\* the blocks already cached and links the tables that wait for e to it.
Compile(e, h) ==
    LET T == LinkTargets(e) IN
    /\ blocks[e] = None
    /\ Decode[code[e]].kind = "block"
    /\ h \in Free
    /\ answer' = h
    /\ body' = [body EXCEPT ![h] = code[e]]
    /\ targets' = [targets EXCEPT ![h] = T]
    /\ blocks' = [blocks EXCEPT ![e] = h]
    /\ dependents' = RegisterTable(h, T)
    /\ slot' = SetInDependents(e, h,
                   [slot EXCEPT ![h] = NewTable(T, blocks')], dependents')
    /\ written' = written \ {e}
    /\ UNCHANGED code

\* getOrCompile has nothing to run: the caller falls back to the interpreter.
Unavailable(e) ==
    /\ blocks[e] = None
    /\ Decode[code[e]].kind \in {"empty", "uncompilable"}
    /\ answer' = None
    /\ UNCHANGED <<code, blocks, body, targets, slot, dependents, written>>

\* getOrCompile throws CompiledBlockDecodeError, even when instructions
\* before the fault were decoded.
DecodeError(e) ==
    /\ blocks[e] = None
    /\ Decode[code[e]].kind = "fault"
    /\ answer' = Threw
    /\ UNCHANGED <<code, blocks, body, targets, slot, dependents, written>>

\* Faults: invalidate restores no stub; clear forgets one map only.
InvalidateLeavesLinks(e) ==
    /\ blocks[e] # None
    /\ blocks' = [blocks EXCEPT ![e] = None]
    /\ dependents' = UnregisterTable(blocks[e])
    /\ written' = written \ {e}
    /\ UNCHANGED <<code, body, targets, slot, answer>>

ClearKeepsIndex ==
    /\ blocks' = [e \in Eip |-> None]
    /\ written' = {}
    /\ UNCHANGED <<code, body, targets, slot, dependents, answer>>

ClearIndexOnly ==
    /\ dependents' = [t \in Eip |-> {}]
    /\ written' = {}
    /\ UNCHANGED <<code, blocks, body, targets, slot, answer>>

\* invalidate of a cached block: forget it, take its table out of the
\* reverse index, and restore the stubs of the tables that jump to it.
Invalidate(e) ==
    /\ blocks[e] # None
    /\ blocks' = [blocks EXCEPT ![e] = None]
    /\ dependents' = UnregisterTable(blocks[e])
    /\ slot' = SetInDependents(e, Stub, slot, dependents')
    /\ written' = written \ {e}
    /\ UNCHANGED <<code, body, targets, answer>>

\* clear forgets the blocks and the reverse index; the tables, which only
\* the forgotten handles own, keep their links.
Clear ==
    /\ blocks' = [e \in Eip |-> None]
    /\ dependents' = [t \in Eip |-> {}]
    /\ written' = {}
    /\ UNCHANGED <<code, body, targets, slot, answer>>

\* The guest or the host stores to code.  The cache is not told.
Write(image) ==
    /\ image # code
    /\ code' = image
    /\ written' = written \cup {e \in Eip : image[e] # code[e]}
    /\ UNCHANGED <<blocks, body, targets, slot, dependents, answer>>

GetOrCompile(e) ==
    \/ Hit(e) \/ Unavailable(e) \/ DecodeError(e)
    \/ \E h \in Handle : Compile(e, h)

Next ==
    \/ \E e \in Eip : GetOrCompile(e) \/ Invalidate(e)
    \/ Clear
    \/ \E image \in Images : Write(image)

Spec == Init /\ [][Next]_vars

-----------------------------------------------------------------------------
(* A jump of a cached block to t runs the block cached under t now and      *)
(* exits to the host when there is none, whatever the order in which the    *)
(* two were compiled, invalidated and compiled again                        *)
(* (registerDependentTable, installTargetInDependentTables, invalidate).    *)
LinkCoherence ==
    \A h \in Cached : \A t \in targets[h] :
        slot[h][t] = IF blocks[t] = None THEN Stub ELSE blocks[t]

(* The reverse index holds the tables of the cached blocks and no other:    *)
(* a table that is missing would keep a stale link, a table of a forgotten  *)
(* block would keep its whole module alive (unregisterDependentTable).      *)
DependentsExact ==
    \A t \in Eip : dependents[t] = {h \in Cached : t \in targets[h]}

(* A jump never lands in code older than the last invalidate of its target: *)
(* unless the bytes at t changed after that and nobody said so, the         *)
(* function a cached block reaches for t was compiled from what t holds.    *)
LinkedJumpsRunCurrentCode ==
    \A h \in Cached : \A t \in targets[h] :
        slot[h][t] # Stub /\ t \notin written => body[slot[h][t]] = code[t]

(* The table of a block that left the cache is never written again, however *)
(* long a caller keeps the block: no later compile installs its function    *)
(* there and no later invalidate can fail on it (invalidate, clear).        *)
RetiredTablesAreFrozen ==
    [][\A h \in Handle : h \notin Cached \cup Cached' => slot'[h] = slot[h]]_vars

-----------------------------------------------------------------------------
\* The refinement: the contents of the cached handles, and through their
\* slots the contents where their jumps land.
cachedCode == [e \in Eip |-> IF blocks[e] = None THEN None ELSE body[blocks[e]]]

landingCode ==
    [e \in Eip |-> [t \in Eip |->
        IF blocks[e] = None \/ t \notin targets[blocks[e]] THEN None
        ELSE LET f == slot[blocks[e]][t]
             IN  IF f = Stub THEN Stub ELSE body[f]]]

Promised == INSTANCE LinkedBlocks WITH cached <- cachedCode, landing <- landingCode

(* The cache with its tables and its reverse index does what LinkedBlocks   *)
(* promises: at every step, each jump lands on what is cached at its target.*)
Promise == Promised!Spec

=============================================================================
