--------------------------- MODULE ValueLocalStore ---------------------------
(***************************************************************************)
(* The value locals of the JIT (jit/codegen/emit/value-local-store.ts): a  *)
(* value the plan selected is computed once into a wasm local and read     *)
(* from there until a register it depends on is written.  A consumer that  *)
(* needs the value beyond that point - a lazy flag producer, a register    *)
(* whose known value is the local - holds a handle on the local, and the   *)
(* local goes back to the free list when the last handle is released.      *)
(*                                                                         *)
(* The store is a record, each operation a function from record to record; *)
(* content holds what the emitted code has put into the locals.            *)
(***************************************************************************)
EXTENDS Integers, Sequences, FiniteSets

CONSTANTS Selected,    \* the values the plan selected for reuse
          MaxLocals,   \* bound on the wasm locals of the store
          Unset        \* what a wasm local holds before it is set

ASSUME MaxLocalsAssumption == MaxLocals \in Nat \ {0}

Locals == 1 .. MaxLocals
NoLocal == 0
NoEntry == <<>>          \* a local no entry owns; an entry is <<value>>

EmptyStore ==
    [local     |-> [v \in Selected |-> NoLocal],   \* CachedJitValue.local
     available |-> [v \in Selected |-> FALSE],     \* CachedJitValue.available
     entry     |-> [l \in Locals |-> NoEntry],     \* CachedJitLocal.entry
     owners    |-> [l \in Locals |-> 0],           \* CachedJitLocal.ownerCount
     free      |-> <<>>,                           \* #freeLocals, a stack
     allocated |-> 0,                              \* body.addLocal
     content   |-> [l \in Locals |-> Unset]]

HasRoom(s) == s.free # <<>> \/ s.allocated < MaxLocals

\* The local of an entry: its own, a freed one, or a new one.
LocalForEntry(s, v) ==
    IF s.local[v] # NoLocal THEN s
    ELSE LET reused == s.free # <<>>
             l == IF reused THEN s.free[Len(s.free)] ELSE s.allocated + 1
         IN  [s EXCEPT !.local[v] = l,
                       !.entry[l] = <<v>>,
                       !.free = IF reused THEN SubSeq(@, 1, Len(@) - 1) ELSE @,
                       !.allocated = IF reused THEN @ ELSE l]

\* The value is on the stack and in its local afterwards; computed is what its
\* expression yields where the code is emitted.
EmitForUse(s, v, computed) ==
    LET t == LocalForEntry(s, v)
    IN  IF t.available[v] THEN t
        ELSE [t EXCEPT !.content[t.local[v]] = computed, !.available[v] = TRUE]

UsedValue(s, v) == s.content[s.local[v]]

HandleForLocal(s, l) == [s EXCEPT !.owners[l] = @ + 1]

CaptureForReuse(s, v, computed) ==
    LET t == EmitForUse(s, v, computed) IN HandleForLocal(t, t.local[v])

Release(s, l) ==
    LET count == s.owners[l] - 1
    IN  [s EXCEPT !.owners[l] = count,
                  !.free = IF count = 0 /\ s.entry[l] = NoEntry THEN Append(@, l) ELSE @]

\* Mutant: an owned local stays with its entry, which overwrites it next time.
ForgetKeepingLocals(s, forgotten) ==
    [s EXCEPT !.available = [v \in Selected |-> s.available[v] /\ v \notin forgotten]]

\* An owned local is cut off from its entry, so that the entry's next value
\* goes elsewhere.
ForgetWhere(s, forgotten) ==
    LET cut == {v \in forgotten : s.local[v] # NoLocal /\ s.owners[s.local[v]] # 0}
    IN  [s EXCEPT
           !.available = [v \in Selected |-> s.available[v] /\ v \notin forgotten],
           !.local     = [v \in Selected |-> IF v \in cut THEN NoLocal ELSE s.local[v]],
           !.entry     = [l \in Locals |-> IF \E v \in cut : s.entry[l] = <<v>>
                                           THEN NoEntry ELSE s.entry[l]]]
=============================================================================
