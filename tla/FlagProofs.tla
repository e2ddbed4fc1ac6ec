------------------------------ MODULE FlagProofs ------------------------------
(***************************************************************************)
(* Proofs about FlagState, for every set of registers, cached values,      *)
(* instructions and bounds.  The inductive invariant FlagInv says, of the  *)
(* emitter's record jit,                                                   *)
(*   Holding  who holds which local: the store is well formed, a producer  *)
(*            is released exactly when no flag refers to it, and each      *)
(*            local's owner count is the number of handles on it, those    *)
(*            waiting in pending producers and those of known registers;   *)
(*            an owned local is never on the free list and still has the   *)
(*            value each of its holders captured;                          *)
(*   Showing  where each flag is: the source of a flag - memory, the flags *)
(*            local or a pending producer - gives the flag of the word the *)
(*            instructions left, and a flags local that is not dirty says  *)
(*            what memory says;                                            *)
(*   PendingSpeculative  the flags a boundary covers include every flag    *)
(*            that is still pending;                                       *)
(*   PhaseTells  what memory says between, in and after instructions.      *)
(* Counting holders, not bounding them, is what makes it inductive: a      *)
(* release may free a local only because the count says nobody is left.    *)
(* CountsInv bounds them afterwards.  ValuesInv is about what the word and *)
(* the operands mean: the word is the one of integer arithmetic, and a     *)
(* pending subtraction waits with two operands of its width and their      *)
(* difference, so that comparing them is reading its flags.  It takes the  *)
(* facts of Arithmetic from FlagState, the only premise of the theorems.   *)
(***************************************************************************)
EXTENDS FlagState, FiniteSetTheorems, TLAPS

-----------------------------------------------------------------------------
(* The store.                                                               *)

Entries == {NoEntry} \cup {<<v>> : v \in Selected}
InFree(s, l) == \E i \in 1 .. Len(s.free) : s.free[i] = l

StoreShape(s) ==
    s = [local |-> s.local, available |-> s.available, entry |-> s.entry, owners |-> s.owners,
         free |-> s.free, allocated |-> s.allocated, content |-> s.content]
StoreTyped(s) ==
    /\ StoreShape(s)
    /\ s.local \in [Selected -> Locals \cup {NoLocal}]
    /\ s.available \in [Selected -> BOOLEAN]
    /\ s.entry \in [Locals -> Entries]
    /\ s.owners \in [Locals -> Nat]
    /\ s.free \in Seq(Locals)
    /\ s.allocated \in 0 .. MaxLocals
    /\ s.content = [l \in Locals |-> s.content[l]]

\* A value's entry and its local name each other.
EntriesMatch(s) ==
    /\ \A v \in Selected : s.local[v] # NoLocal => s.entry[s.local[v]] = <<v>>
    /\ \A v \in Selected : \A l \in Locals : s.entry[l] = <<v>> => s.local[v] = l
\* An available value has a local; what is no longer available has no owner
\* left in its local.
AvailableHeld(s) ==
    \A v \in Selected :
      /\ s.available[v] => s.local[v] # NoLocal
      /\ s.local[v] # NoLocal /\ ~s.available[v] => s.owners[s.local[v]] = 0
Unused(s, l) == s.owners[l] = 0 /\ s.entry[l] = NoEntry
\* The free list is the allocated locals nothing refers to, each once; nothing
\* refers to one that is not allocated.
FreeExact(s) ==
    /\ \A i, k \in 1 .. Len(s.free) : s.free[i] = s.free[k] => i = k
    /\ \A l \in Locals : InFree(s, l) <=> l <= s.allocated /\ Unused(s, l)
    /\ \A l \in Locals : l > s.allocated => Unused(s, l)

StoreInv(s) == StoreTyped(s) /\ EntriesMatch(s) /\ AvailableHeld(s) /\ FreeExact(s)

LEMMA EntryDistinct ==
    ASSUME NEW v, NEW u
    PROVE  <<v>> # NoEntry /\ (<<v>> = <<u>> => v = u)
<1>1. <<v>> # NoEntry
  BY DEF NoEntry
<1>2. <<v>> = <<u>> => v = u
  <2>1. <<v>>[1] = v /\ <<u>>[1] = u
    OBVIOUS
  <2> QED BY <2>1
<1> QED BY <1>1, <1>2

LEMMA EmptyStoreHolds == StoreInv(EmptyStore)
<1> DEFINE s == EmptyStore
<1>1. MaxLocals \in Nat
  BY MaxLocalsAssumption
<1>2. StoreTyped(s)
  BY <1>1 DEF StoreTyped, StoreShape, EmptyStore, Entries, Locals, NoLocal
<1>3. EntriesMatch(s)
  BY EntryDistinct DEF EntriesMatch, EmptyStore, NoLocal
<1>4. AvailableHeld(s)
  BY DEF AvailableHeld, EmptyStore, NoLocal
<1>5. FreeExact(s)
  BY <1>1 DEF FreeExact, EmptyStore, InFree, Unused, Locals, NoLocal
<1> QED BY <1>2, <1>3, <1>4, <1>5 DEF StoreInv

-----------------------------------------------------------------------------
(* What each operation of the store leaves in its fields.                   *)

\* The local of an entry that has none.
NewLocal(s) == IF s.free # <<>> THEN s.free[Len(s.free)] ELSE s.allocated + 1

LEMMA NewLocalExists ==
    ASSUME NEW s, StoreTyped(s), HasRoom(s)
    PROVE  NewLocal(s) \in Locals
<1>1. CASE s.free # <<>>
  <2>1. Len(s.free) \in 1 .. Len(s.free)
    BY <1>1 DEF StoreTyped
  <2> QED BY <1>1, <2>1 DEF StoreTyped, NewLocal
<1>2. CASE s.free = <<>>
  <2>1. s.allocated \in Nat /\ s.allocated < MaxLocals /\ MaxLocals \in Nat
    BY <1>2, MaxLocalsAssumption DEF StoreTyped, HasRoom
  <2> QED BY <1>2, <2>1 DEF Locals, NewLocal
<1> QED BY <1>1, <1>2

LEMMA LocalForEntryFields ==
    ASSUME NEW s, StoreTyped(s), NEW v \in Selected, s.local[v] = NoLocal, HasRoom(s),
           NEW t, t = LocalForEntry(s, v)
    PROVE  /\ StoreShape(t)
           /\ t.available = s.available /\ t.owners = s.owners /\ t.content = s.content
           /\ t.local = [s.local EXCEPT ![v] = NewLocal(s)]
           /\ t.entry = [s.entry EXCEPT ![NewLocal(s)] = <<v>>]
           /\ t.free = IF s.free # <<>> THEN SubSeq(s.free, 1, Len(s.free) - 1) ELSE s.free
           /\ t.allocated = IF s.free # <<>> THEN s.allocated ELSE s.allocated + 1
<1>0. StoreShape(s)
  BY DEF StoreTyped
<1>1. t = [s EXCEPT !.local[v] = NewLocal(s),
                    !.entry[NewLocal(s)] = <<v>>,
                    !.free = IF s.free # <<>> THEN SubSeq(@, 1, Len(@) - 1) ELSE @,
                    !.allocated = IF s.free # <<>> THEN @ ELSE NewLocal(s)]
  BY DEF LocalForEntry, NewLocal
<1>2. s.free = <<>> => NewLocal(s) = s.allocated + 1
  BY DEF NewLocal
<1> QED BY <1>0, <1>1, <1>2 DEF StoreShape

LEMMA ReleaseFields ==
    ASSUME NEW s, StoreTyped(s), NEW l \in Locals, NEW t, t = Release(s, l)
    PROVE  /\ StoreShape(t)
           /\ t.available = s.available /\ t.local = s.local /\ t.entry = s.entry
           /\ t.content = s.content /\ t.allocated = s.allocated
           /\ t.owners = [s.owners EXCEPT ![l] = @ - 1]
           /\ t.free = IF s.owners[l] = 1 /\ s.entry[l] = NoEntry THEN Append(s.free, l) ELSE s.free
<1>0. StoreShape(s) /\ s.owners[l] \in Nat
  BY DEF StoreTyped
<1>1. t = [s EXCEPT !.owners[l] = s.owners[l] - 1,
                    !.free = IF s.owners[l] - 1 = 0 /\ s.entry[l] = NoEntry THEN Append(@, l) ELSE @]
  BY DEF Release
<1>2. s.owners[l] - 1 = 0 <=> s.owners[l] = 1
  BY <1>0
<1> QED BY <1>0, <1>1, <1>2 DEF StoreShape

LEMMA HandleFields ==
    ASSUME NEW s, StoreTyped(s), NEW l \in Locals, NEW t, t = HandleForLocal(s, l)
    PROVE  /\ StoreShape(t)
           /\ t.available = s.available /\ t.local = s.local /\ t.entry = s.entry
           /\ t.content = s.content /\ t.allocated = s.allocated /\ t.free = s.free
           /\ t.owners = [s.owners EXCEPT ![l] = @ + 1]
<1>0. StoreShape(s)
  BY DEF StoreTyped
<1>1. t = [s EXCEPT !.owners[l] = @ + 1]
  BY DEF HandleForLocal
<1> QED BY <1>0, <1>1 DEF StoreShape

\* A local filled with the value of its entry.
Filled(s, v, l, x) == [s EXCEPT !.content[l] = x, !.available[v] = TRUE]

LEMMA FillFields ==
    ASSUME NEW s, StoreTyped(s), NEW v \in Selected, NEW l \in Locals, NEW x,
           NEW t, t = Filled(s, v, l, x)
    PROVE  /\ StoreShape(t)
           /\ t.owners = s.owners /\ t.local = s.local /\ t.entry = s.entry
           /\ t.allocated = s.allocated /\ t.free = s.free
           /\ t.content = [s.content EXCEPT ![l] = x]
           /\ t.available = [s.available EXCEPT ![v] = TRUE]
<1>0. StoreShape(s)
  BY DEF StoreTyped
<1> QED BY <1>0 DEF StoreShape, Filled

\* The values whose locals are cut off when some are forgotten.
Cut(s, F) == {v \in F : s.local[v] # NoLocal /\ s.owners[s.local[v]] # 0}
AvailableWithout(s, F) == [v \in Selected |-> s.available[v] /\ v \notin F]
LocalWithout(s, F) == [v \in Selected |-> IF v \in Cut(s, F) THEN NoLocal ELSE s.local[v]]
EntryWithout(s, F) ==
    [l \in Locals |-> IF \E v \in Cut(s, F) : s.entry[l] = <<v>> THEN NoEntry ELSE s.entry[l]]

LEMMA ForgetFields ==
    ASSUME NEW s, StoreTyped(s), NEW F, NEW t, t = ForgetWhere(s, F)
    PROVE  /\ StoreShape(t)
           /\ t.owners = s.owners /\ t.allocated = s.allocated /\ t.free = s.free
           /\ t.content = s.content
           /\ t.available = AvailableWithout(s, F)
           /\ t.local = LocalWithout(s, F)
           /\ t.entry = EntryWithout(s, F)
<1>0. StoreShape(s)
  BY DEF StoreTyped
<1>1. t = [s EXCEPT !.available = AvailableWithout(s, F),
                    !.local = LocalWithout(s, F),
                    !.entry = EntryWithout(s, F)]
  BY DEF ForgetWhere, Cut, AvailableWithout, LocalWithout, EntryWithout
<1> QED BY <1>0, <1>1 DEF StoreShape

-----------------------------------------------------------------------------
(* Every operation keeps the store's invariant.                             *)

\* A freed or new local is nobody's.
LEMMA NewLocalUnused ==
    ASSUME NEW s, StoreInv(s), HasRoom(s)
    PROVE  Unused(s, NewLocal(s)) /\ NewLocal(s) \in Locals
<1>1. NewLocal(s) \in Locals
  BY NewLocalExists DEF StoreInv
<1>2. CASE s.free # <<>>
  <2>1. Len(s.free) \in 1 .. Len(s.free)
    BY <1>2 DEF StoreInv, StoreTyped
  <2>2. InFree(s, NewLocal(s))
    BY <1>2, <2>1 DEF InFree, NewLocal
  <2> QED BY <1>1, <2>2 DEF StoreInv, FreeExact
<1>3. CASE s.free = <<>>
  <2>1. NewLocal(s) > s.allocated
    BY <1>3 DEF NewLocal, StoreInv, StoreTyped
  <2> QED BY <1>1, <2>1 DEF StoreInv, FreeExact
<1> QED BY <1>1, <1>2, <1>3

\* The rest of the free list, when its top is taken.
LEMMA FreePopped ==
    ASSUME NEW s, StoreInv(s), s.free # <<>>, NEW l
    PROVE  /\ SubSeq(s.free, 1, Len(s.free) - 1) \in Seq(Locals)
           /\ Len(SubSeq(s.free, 1, Len(s.free) - 1)) = Len(s.free) - 1
           /\ \A i \in 1 .. Len(s.free) - 1 : SubSeq(s.free, 1, Len(s.free) - 1)[i] = s.free[i]
           /\ (\E i \in 1 .. Len(s.free) - 1 : s.free[i] = l) <=> InFree(s, l) /\ l # NewLocal(s)
<1> DEFINE n == Len(s.free)
<1>1. s.free \in Seq(Locals) /\ n \in Nat /\ n >= 1
  BY DEF StoreInv, StoreTyped
<1>2. \A i, k \in 1 .. n : s.free[i] = s.free[k] => i = k
  BY DEF StoreInv, FreeExact
<1>3. NewLocal(s) = s.free[n]
  BY DEF NewLocal
<1>4. (\E i \in 1 .. n - 1 : s.free[i] = l) <=> InFree(s, l) /\ l # NewLocal(s)
  <2>1. ASSUME NEW i \in 1 .. n - 1, s.free[i] = l PROVE InFree(s, l) /\ l # NewLocal(s)
    BY <1>1, <1>2, <1>3, <2>1 DEF InFree
  <2>2. ASSUME InFree(s, l), l # NewLocal(s) PROVE \E i \in 1 .. n - 1 : s.free[i] = l
    <3>1. PICK i \in 1 .. n : s.free[i] = l
      BY <2>2 DEF InFree
    <3>2. i # n
      BY <1>3, <2>2, <3>1
    <3>3. i \in 1 .. n - 1
      BY <1>1, <3>1, <3>2
    <3> QED BY <3>1, <3>3
  <2> QED BY <2>1, <2>2
<1> QED BY <1>1, <1>4

LEMMA LocalForEntryKeeps ==
    ASSUME NEW s, StoreInv(s), NEW v \in Selected, s.local[v] # NoLocal \/ HasRoom(s),
           NEW t, t = LocalForEntry(s, v)
    PROVE  /\ StoreInv(t)
           /\ t.local[v] \in Locals
           /\ t.available = s.available /\ t.owners = s.owners /\ t.content = s.content
           /\ \A u \in Selected : s.available[u] => t.local[u] = s.local[u]
           /\ ~s.available[v] => s.owners[t.local[v]] = 0
<1>1. CASE s.local[v] # NoLocal
  <2>1. t = s
    BY <1>1 DEF LocalForEntry
  <2>2. s.local[v] \in Locals
    BY <1>1 DEF StoreInv, StoreTyped
  <2> QED BY <1>1, <2>1, <2>2 DEF StoreInv, AvailableHeld
<1>2. CASE s.local[v] = NoLocal
  <2> DEFINE l == NewLocal(s)
  <2>1. StoreTyped(s) /\ EntriesMatch(s) /\ AvailableHeld(s) /\ FreeExact(s)
    BY DEF StoreInv
  <2>2. HasRoom(s)
    BY <1>2
  <2>3. l \in Locals /\ s.owners[l] = 0 /\ s.entry[l] = NoEntry
    BY <2>2, NewLocalUnused DEF Unused
  <2>4. /\ StoreShape(t)
        /\ t.available = s.available /\ t.owners = s.owners /\ t.content = s.content
        /\ t.local = [s.local EXCEPT ![v] = l]
        /\ t.entry = [s.entry EXCEPT ![l] = <<v>>]
        /\ t.free = IF s.free # <<>> THEN SubSeq(s.free, 1, Len(s.free) - 1) ELSE s.free
        /\ t.allocated = IF s.free # <<>> THEN s.allocated ELSE s.allocated + 1
    BY <1>2, <2>1, <2>2, LocalForEntryFields
  <2> HIDE DEF l
  <2>5. ~s.available[v]
    BY <1>2, <2>1 DEF AvailableHeld
  <2>6. l # NoLocal
    BY <2>3 DEF Locals, NoLocal
  <2>7. t.local[v] = l /\ \A u \in Selected : u # v => t.local[u] = s.local[u]
    BY <2>1, <2>4 DEF StoreTyped
  <2>8. t.entry[l] = <<v>> /\ \A k \in Locals : k # l => t.entry[k] = s.entry[k]
    BY <2>1, <2>3, <2>4 DEF StoreTyped
  <2>9. StoreTyped(t)
    <3>1. t.local \in [Selected -> Locals \cup {NoLocal}]
      BY <2>1, <2>3, <2>4 DEF StoreTyped
    <3>2. t.entry \in [Locals -> Entries]
      BY <2>1, <2>3, <2>4 DEF StoreTyped, Entries
    <3>3. t.free \in Seq(Locals)
      BY <2>1, <2>4, FreePopped DEF StoreTyped
    <3>4. t.allocated \in 0 .. MaxLocals
      <4>1. s.allocated \in 0 .. MaxLocals /\ MaxLocals \in Nat
        BY <2>1, MaxLocalsAssumption DEF StoreTyped
      <4>2. s.free = <<>> => s.allocated < MaxLocals
        BY <2>2 DEF HasRoom
      <4> QED BY <2>4, <4>1, <4>2
    <3>5. /\ t.available \in [Selected -> BOOLEAN] /\ t.owners \in [Locals -> Nat]
          /\ t.content = [k \in Locals |-> t.content[k]]
      BY <2>1, <2>4 DEF StoreTyped
    <3> QED BY <2>4, <3>1, <3>2, <3>3, <3>4, <3>5 DEF StoreTyped
  <2>10. EntriesMatch(t)
    <3>1. ASSUME NEW u \in Selected, t.local[u] # NoLocal PROVE t.entry[t.local[u]] = <<u>>
      <4>1. CASE u = v
        BY <2>7, <2>8, <4>1
      <4>2. CASE u # v
        <5>1. t.local[u] = s.local[u] /\ s.local[u] \in Locals /\ s.entry[s.local[u]] = <<u>>
          BY <2>1, <2>7, <3>1, <4>2 DEF EntriesMatch, StoreTyped
        <5>2. s.local[u] # l
          BY <2>3, <5>1, EntryDistinct
        <5> QED BY <2>8, <5>1, <5>2
      <4> QED BY <4>1, <4>2
    <3>2. ASSUME NEW u \in Selected, NEW k \in Locals, t.entry[k] = <<u>> PROVE t.local[u] = k
      <4>1. CASE k = l
        <5>1. u = v
          BY <2>8, <3>2, <4>1, EntryDistinct
        <5> QED BY <2>7, <4>1, <5>1
      <4>2. CASE k # l
        <5>1. s.local[u] = k
          BY <2>1, <2>8, <3>2, <4>2 DEF EntriesMatch
        <5>2. k # NoLocal
          BY DEF Locals, NoLocal
        <5> QED BY <1>2, <2>7, <5>1, <5>2
      <4> QED BY <4>1, <4>2
    <3> QED BY <3>1, <3>2 DEF EntriesMatch
  <2>11. AvailableHeld(t)
    <3>1. t.owners[t.local[v]] = 0 /\ t.local[v] # NoLocal
      BY <2>3, <2>4, <2>6, <2>7
    <3>2. ASSUME NEW u \in Selected, u # v
          PROVE  /\ t.available[u] => t.local[u] # NoLocal
                 /\ t.local[u] # NoLocal /\ ~t.available[u] => t.owners[t.local[u]] = 0
      BY <2>1, <2>4, <2>7, <3>2 DEF AvailableHeld
    <3> QED BY <3>1, <3>2 DEF AvailableHeld
  <2>12. FreeExact(t)
    <3>0. s.free \in Seq(Locals) /\ Len(s.free) \in Nat /\ s.allocated \in Nat /\ Locals \subseteq Nat
      BY <2>1 DEF StoreTyped, Locals
    <3>1. \A k \in Locals : Unused(t, k) <=> Unused(s, k) /\ k # l
      BY <2>3, <2>4, <2>8, EntryDistinct DEF Unused
    <3>2. CASE s.free # <<>>
      <4>1. /\ Len(t.free) = Len(s.free) - 1
            /\ \A i \in 1 .. Len(s.free) - 1 : t.free[i] = s.free[i]
            /\ t.allocated = s.allocated
        BY <2>4, <3>2, FreePopped
      <4>2. \A k \in Locals : InFree(t, k) <=> InFree(s, k) /\ k # l
        <5> TAKE k \in Locals
        <5>1. InFree(t, k) <=> \E i \in 1 .. Len(s.free) - 1 : s.free[i] = k
          BY <4>1 DEF InFree
        <5> QED BY <3>2, <5>1, FreePopped DEF l
      <4>3. \A i, k \in 1 .. Len(t.free) : t.free[i] = t.free[k] => i = k
        BY <2>1, <3>0, <4>1 DEF FreeExact
      <4>4. \A k \in Locals : InFree(t, k) <=> k <= t.allocated /\ Unused(t, k)
        BY <2>1, <3>1, <4>1, <4>2 DEF FreeExact
      <4>5. l <= s.allocated
        <5>1. InFree(s, l)
          <6>1. Len(s.free) \in 1 .. Len(s.free)
            BY <3>0, <3>2
          <6> QED BY <3>2, <6>1 DEF InFree, NewLocal, l
        <5> QED BY <2>1, <2>3, <5>1 DEF FreeExact
      <4>6. \A k \in Locals : k > t.allocated => Unused(t, k)
        BY <2>1, <2>3, <3>0, <3>1, <4>1, <4>5 DEF FreeExact
      <4> QED BY <4>3, <4>4, <4>6 DEF FreeExact
    <3>3. CASE s.free = <<>>
      <4>1. t.free = s.free /\ t.allocated = s.allocated + 1 /\ l = s.allocated + 1
        BY <2>4, <3>3 DEF l, NewLocal
      <4>2. \A k \in Locals : ~InFree(t, k) /\ ~InFree(s, k)
        BY <3>3, <4>1 DEF InFree
      <4>3. \A k \in Locals : InFree(t, k) <=> k <= t.allocated /\ Unused(t, k)
        <5> TAKE k \in Locals
        <5>1. k <= t.allocated => k <= s.allocated \/ k = l
          BY <3>0, <4>1
        <5>2. ~(k <= s.allocated /\ Unused(s, k))
          BY <2>1, <4>2 DEF FreeExact
        <5> QED BY <3>1, <4>2, <5>1, <5>2
      <4>4. \A k \in Locals : k > t.allocated => Unused(t, k)
        BY <2>1, <3>0, <3>1, <4>1 DEF FreeExact
      <4>5. \A i, k \in 1 .. Len(t.free) : t.free[i] = t.free[k] => i = k
        BY <2>1, <4>1 DEF FreeExact
      <4> QED BY <4>3, <4>4, <4>5 DEF FreeExact
    <3> QED BY <3>2, <3>3
  <2>13. StoreInv(t)
    BY <2>9, <2>10, <2>11, <2>12 DEF StoreInv
  <2>14. \A u \in Selected : s.available[u] => t.local[u] = s.local[u]
    BY <2>5, <2>7
  <2> QED BY <2>3, <2>4, <2>7, <2>13, <2>14
<1> QED BY <1>1, <1>2

\* Two values have two locals.
LEMMA LocalsApart ==
    ASSUME NEW s, EntriesMatch(s), NEW v \in Selected, NEW u \in Selected,
           s.local[v] # NoLocal, s.local[v] = s.local[u]
    PROVE  v = u
BY EntryDistinct DEF EntriesMatch

\* The value is available afterwards, in a local no owner had: what owners
\* hold, and the other available values, are as they were.
LEMMA EmitForUseKeeps ==
    ASSUME NEW s, StoreInv(s), NEW v \in Selected, s.local[v] # NoLocal \/ HasRoom(s), NEW x,
           NEW t, t = EmitForUse(s, v, x)
    PROVE  /\ StoreInv(t)
           /\ t.local[v] \in Locals /\ t.available[v]
           /\ UsedValue(t, v) = IF s.available[v] THEN UsedValue(s, v) ELSE x
           /\ t.owners = s.owners
           /\ \A l \in Locals : s.owners[l] # 0 => t.content[l] = s.content[l]
           /\ \A u \in Selected : u # v => (t.available[u] <=> s.available[u])
           /\ \A u \in Selected : s.available[u] => UsedValue(t, u) = UsedValue(s, u)
<1>1. PICK m : m = LocalForEntry(s, v)
  OBVIOUS
<1>2. /\ StoreInv(m)
      /\ m.local[v] \in Locals
      /\ m.available = s.available /\ m.owners = s.owners /\ m.content = s.content
      /\ \A u \in Selected : s.available[u] => m.local[u] = s.local[u]
      /\ ~s.available[v] => s.owners[m.local[v]] = 0
  BY <1>1, LocalForEntryKeeps
<1>3. CASE s.available[v]
  <2>1. t = m
    BY <1>1, <1>2, <1>3 DEF EmitForUse
  <2> QED BY <1>2, <1>3, <2>1 DEF UsedValue
<1>4. CASE ~s.available[v]
  <2> DEFINE l == m.local[v]
  <2>1. t = Filled(m, v, l, x)
    BY <1>1, <1>2, <1>4 DEF EmitForUse, Filled
  <2>2. /\ StoreShape(t)
        /\ t.owners = m.owners /\ t.local = m.local /\ t.entry = m.entry
        /\ t.allocated = m.allocated /\ t.free = m.free
        /\ t.content = [m.content EXCEPT ![l] = x]
        /\ t.available = [m.available EXCEPT ![v] = TRUE]
    BY <1>2, <2>1, FillFields DEF StoreInv
  <2>3. StoreTyped(m) /\ EntriesMatch(m) /\ AvailableHeld(m) /\ FreeExact(m)
    BY <1>2 DEF StoreInv
  <2>4. t.content[l] = x /\ \A k \in Locals : k # l => t.content[k] = m.content[k]
    BY <1>2, <2>2, <2>3 DEF StoreTyped
  <2>5. t.available[v] /\ \A u \in Selected : u # v => (t.available[u] <=> m.available[u])
    BY <2>2, <2>3 DEF StoreTyped
  <2>6. StoreTyped(t)
    BY <2>2, <2>3 DEF StoreTyped
  <2>7. EntriesMatch(t) /\ FreeExact(t)
    BY <2>2, <2>3 DEF EntriesMatch, FreeExact, InFree, Unused
  <2>8. l # NoLocal
    BY <1>2 DEF Locals, NoLocal
  <2>9. AvailableHeld(t)
    <3> USE DEF AvailableHeld
    <3> TAKE u \in Selected
    <3>1. CASE u = v
      BY <2>2, <2>5, <2>8, <3>1
    <3>2. CASE u # v
      BY <2>2, <2>3, <2>5, <3>2 DEF AvailableHeld
    <3> QED BY <3>1, <3>2
  <2>10. StoreInv(t)
    BY <2>6, <2>7, <2>9 DEF StoreInv
  <2>11. \A u \in Selected : s.available[u] => UsedValue(t, u) = UsedValue(s, u)
    <3> TAKE u \in Selected
    <3> HAVE s.available[u]
    <3>1. u # v /\ m.available[u] /\ m.local[u] = s.local[u]
      BY <1>2, <1>4
    <3>2. m.local[u] # NoLocal /\ m.local[u] \in Locals
      BY <2>3, <3>1 DEF AvailableHeld, StoreTyped
    <3>3. m.local[u] # l
      BY <2>3, <3>1, <3>2, LocalsApart
    <3> QED BY <1>2, <2>2, <2>4, <3>1, <3>2, <3>3 DEF UsedValue
  <2>12. UsedValue(t, v) = x
    BY <2>2, <2>4 DEF UsedValue
  <2>13. \A k \in Locals : s.owners[k] # 0 => t.content[k] = s.content[k]
    BY <1>2, <1>4, <2>4
  <2> QED BY <1>2, <1>4, <2>2, <2>5, <2>10, <2>11, <2>12, <2>13
<1> QED BY <1>3, <1>4

\* A handle on the local of an available value.
LEMMA HandleKeeps ==
    ASSUME NEW s, StoreInv(s), NEW v \in Selected, s.available[v],
           NEW t, t = HandleForLocal(s, s.local[v])
    PROVE  /\ StoreInv(t)
           /\ s.local[v] \in Locals
           /\ t.owners = [s.owners EXCEPT ![s.local[v]] = @ + 1]
           /\ t.local = s.local /\ t.available = s.available /\ t.content = s.content
<1> DEFINE l == s.local[v]
<1>1. StoreTyped(s) /\ EntriesMatch(s) /\ AvailableHeld(s) /\ FreeExact(s)
  BY DEF StoreInv
<1>2. l # NoLocal /\ l \in Locals /\ s.entry[l] = <<v>>
  BY <1>1 DEF AvailableHeld, StoreTyped, EntriesMatch
<1>3. /\ StoreShape(t)
      /\ t.available = s.available /\ t.local = s.local /\ t.entry = s.entry
      /\ t.content = s.content /\ t.allocated = s.allocated /\ t.free = s.free
      /\ t.owners = [s.owners EXCEPT ![l] = @ + 1]
  BY <1>1, <1>2, HandleFields
<1>4. StoreTyped(t)
  BY <1>1, <1>2, <1>3 DEF StoreTyped
<1>5. EntriesMatch(t)
  BY <1>1, <1>3 DEF EntriesMatch
<1>6. \A k \in Locals : Unused(t, k) <=> Unused(s, k)
  <2> TAKE k \in Locals
  <2>1. CASE k = l
    BY <1>2, <1>3, <2>1, EntryDistinct DEF Unused
  <2>2. CASE k # l
    BY <1>1, <1>3, <2>2 DEF Unused, StoreTyped
  <2> QED BY <2>1, <2>2
<1>7. FreeExact(t)
  BY <1>1, <1>3, <1>6 DEF FreeExact, InFree
<1>8. AvailableHeld(t)
  <2> USE DEF AvailableHeld
  <2> TAKE u \in Selected
  <2>1. CASE u = v
    BY <1>2, <1>3, <2>1
  <2>2. CASE u # v
    <3>1. s.local[u] # l
      BY <1>1, <1>2, <2>2, LocalsApart
    <3>2. t.local[u] # NoLocal => t.owners[t.local[u]] = s.owners[s.local[u]]
      BY <1>1, <1>3, <3>1 DEF StoreTyped
    <3> QED BY <1>1, <1>3, <3>2 DEF AvailableHeld
  <2> QED BY <2>1, <2>2
<1> QED BY <1>2, <1>3, <1>4, <1>5, <1>7, <1>8 DEF StoreInv

\* A handle is given back: the local is free when it was the last one and no
\* entry has the local.
LEMMA ReleaseKeeps ==
    ASSUME NEW s, StoreInv(s), NEW l \in Locals, s.owners[l] # 0, NEW t, t = Release(s, l)
    PROVE  /\ StoreInv(t)
           /\ t.owners = [s.owners EXCEPT ![l] = @ - 1]
           /\ t.local = s.local /\ t.available = s.available /\ t.content = s.content
<1>1. StoreTyped(s) /\ EntriesMatch(s) /\ AvailableHeld(s) /\ FreeExact(s)
  BY DEF StoreInv
<1>2. s.owners[l] \in Nat /\ s.owners[l] - 1 \in Nat
  BY <1>1 DEF StoreTyped
<1>3. /\ StoreShape(t)
      /\ t.available = s.available /\ t.local = s.local /\ t.entry = s.entry
      /\ t.content = s.content /\ t.allocated = s.allocated
      /\ t.owners = [s.owners EXCEPT ![l] = @ - 1]
      /\ t.free = IF s.owners[l] = 1 /\ s.entry[l] = NoEntry THEN Append(s.free, l) ELSE s.free
  BY <1>1, ReleaseFields
<1>4. StoreTyped(t)
  <2>1. t.owners \in [Locals -> Nat]
    BY <1>1, <1>2, <1>3 DEF StoreTyped
  <2>2. t.free \in Seq(Locals)
    BY <1>1, <1>3 DEF StoreTyped
  <2> QED BY <1>1, <1>3, <2>1, <2>2 DEF StoreTyped
<1>5. EntriesMatch(t)
  BY <1>1, <1>3 DEF EntriesMatch
<1>6. AvailableHeld(t)
  <2> USE DEF AvailableHeld
  <2> TAKE u \in Selected
  <2>1. ASSUME t.local[u] # NoLocal, ~t.available[u] PROVE t.owners[t.local[u]] = 0
    <3>1. s.owners[s.local[u]] = 0 /\ s.local[u] \in Locals
      BY <1>1, <1>3, <2>1 DEF AvailableHeld, StoreTyped
    <3> QED BY <1>1, <1>3, <3>1 DEF StoreTyped
  <2> QED BY <1>1, <1>3, <2>1 DEF AvailableHeld
<1>7. \A k \in Locals : Unused(t, k) <=> Unused(s, k) \/ (k = l /\ s.owners[l] = 1 /\ s.entry[l] = NoEntry)
  <2> TAKE k \in Locals
  <2>1. CASE k = l
    <3>1. t.owners[k] = s.owners[l] - 1 /\ t.entry[k] = s.entry[l]
      BY <1>1, <1>3, <2>1 DEF StoreTyped
    <3> QED BY <1>2, <2>1, <3>1 DEF Unused
  <2>2. CASE k # l
    BY <1>1, <1>3, <2>2 DEF Unused, StoreTyped
  <2> QED BY <2>1, <2>2
<1>8. l <= s.allocated /\ ~InFree(s, l)
  BY <1>1, <1>2 DEF FreeExact, Unused, StoreTyped, Locals
<1>9. FreeExact(t)
  <2>1. CASE s.owners[l] = 1 /\ s.entry[l] = NoEntry
    <3> DEFINE n == Len(s.free)
    <3>1. s.free \in Seq(Locals) /\ n \in Nat
      BY <1>1 DEF StoreTyped
    <3>2. /\ Len(t.free) = n + 1 /\ t.free[n + 1] = l
          /\ \A i \in 1 .. n : t.free[i] = s.free[i]
      BY <1>3, <2>1, <3>1
    <3>3. \A i \in 1 .. n : s.free[i] # l
      BY <1>8 DEF InFree
    <3>4. \A i, k \in 1 .. Len(t.free) : t.free[i] = t.free[k] => i = k
      <4> TAKE i, k \in 1 .. Len(t.free)
      <4>1. CASE i = n + 1 \/ k = n + 1
        <5>1. ASSUME NEW m \in 1 .. Len(t.free), m # n + 1 PROVE t.free[m] # l
          <6>1. m \in 1 .. n
            BY <3>1, <3>2, <5>1
          <6> QED BY <3>2, <3>3, <6>1
        <5>2. t.free[n + 1] = l
          BY <3>2
        <5> HIDE DEF n
        <5> QED BY <4>1, <5>1, <5>2
      <4>2. CASE i # n + 1 /\ k # n + 1
        <5>1. i \in 1 .. n /\ k \in 1 .. n
          BY <3>1, <3>2, <4>2
        <5> QED BY <1>1, <3>2, <5>1 DEF FreeExact
      <4> QED BY <4>1, <4>2
    <3>5. \A k \in Locals : InFree(t, k) <=> InFree(s, k) \/ k = l
      <4> TAKE k \in Locals
      <4>1. ASSUME InFree(s, k) PROVE InFree(t, k)
        BY <3>1, <3>2, <4>1 DEF InFree
      <4>2. InFree(t, l)
        <5>1. n + 1 \in 1 .. Len(t.free)
          BY <3>1, <3>2
        <5> QED BY <3>2, <5>1 DEF InFree
      <4>3. ASSUME InFree(t, k), k # l PROVE InFree(s, k)
        <5>1. PICK i \in 1 .. n + 1 : t.free[i] = k
          BY <3>2, <4>3 DEF InFree
        <5>2. i \in 1 .. n
          BY <3>1, <3>2, <4>3, <5>1
        <5> QED BY <3>2, <5>1, <5>2 DEF InFree
      <4> QED BY <4>1, <4>2, <4>3
    <3>6. \A k \in Locals : InFree(t, k) <=> k <= t.allocated /\ Unused(t, k)
      BY <1>1, <1>3, <1>7, <1>8, <2>1, <3>5 DEF FreeExact
    <3>7. \A k \in Locals : k > t.allocated => Unused(t, k)
      BY <1>1, <1>3, <1>7 DEF FreeExact
    <3> QED BY <3>4, <3>6, <3>7 DEF FreeExact
  <2>2. CASE ~(s.owners[l] = 1 /\ s.entry[l] = NoEntry)
    BY <1>1, <1>3, <1>7, <2>2 DEF FreeExact, InFree
  <2> QED BY <2>1, <2>2
<1> QED BY <1>3, <1>4, <1>5, <1>6, <1>9 DEF StoreInv

\* Values are forgotten: an owned local is cut off from its entry, so that it
\* is neither free nor filled again.
LEMMA ForgetKeeps ==
    ASSUME NEW s, StoreInv(s), NEW F, NEW t, t = ForgetWhere(s, F)
    PROVE  /\ StoreInv(t)
           /\ t.owners = s.owners /\ t.content = s.content
           /\ \A v \in Selected : t.available[v] <=> s.available[v] /\ v \notin F
           /\ \A v \in Selected : t.available[v] => t.local[v] = s.local[v]
<1>1. StoreTyped(s) /\ EntriesMatch(s) /\ AvailableHeld(s) /\ FreeExact(s)
  BY DEF StoreInv
<1>2. /\ StoreShape(t)
      /\ t.owners = s.owners /\ t.allocated = s.allocated /\ t.free = s.free
      /\ t.content = s.content
      /\ t.available = AvailableWithout(s, F)
      /\ t.local = LocalWithout(s, F)
      /\ t.entry = EntryWithout(s, F)
  BY <1>1, ForgetFields
<1> USE DEF AvailableWithout, LocalWithout, EntryWithout
<1>3. StoreTyped(t)
  <2>1. t.available \in [Selected -> BOOLEAN]
    BY <1>2
  <2>2. t.local \in [Selected -> Locals \cup {NoLocal}]
    BY <1>1, <1>2 DEF StoreTyped
  <2>3. t.entry \in [Locals -> Entries]
    BY <1>1, <1>2 DEF StoreTyped, Entries
  <2> QED BY <1>1, <1>2, <2>1, <2>2, <2>3 DEF StoreTyped
<1>4. EntriesMatch(t)
  <2>1. ASSUME NEW v \in Selected, t.local[v] # NoLocal PROVE t.entry[t.local[v]] = <<v>>
    <3>1. v \notin Cut(s, F) /\ t.local[v] = s.local[v]
      BY <1>2, <2>1
    <3>2. s.local[v] \in Locals /\ s.entry[s.local[v]] = <<v>>
      BY <1>1, <2>1, <3>1 DEF StoreTyped, EntriesMatch
    <3>3. ~\E u \in Cut(s, F) : s.entry[s.local[v]] = <<u>>
      BY <3>1, <3>2, EntryDistinct
    <3> QED BY <1>2, <3>1, <3>2, <3>3
  <2>2. ASSUME NEW v \in Selected, NEW l \in Locals, t.entry[l] = <<v>> PROVE t.local[v] = l
    <3>1. ~(\E u \in Cut(s, F) : s.entry[l] = <<u>>) /\ s.entry[l] = <<v>>
      BY <1>2, <2>2, EntryDistinct
    <3>2. s.local[v] = l /\ v \notin Cut(s, F)
      BY <1>1, <3>1 DEF EntriesMatch
    <3> QED BY <1>2, <3>2
  <2> QED BY <2>1, <2>2 DEF EntriesMatch
<1>5. AvailableHeld(t)
  <2> USE DEF AvailableHeld
  <2> TAKE v \in Selected
  <2>1. ASSUME t.available[v] PROVE t.local[v] # NoLocal
    <3>1. s.available[v] /\ v \notin F
      BY <1>2, <2>1
    <3> QED BY <1>1, <1>2, <3>1 DEF AvailableHeld, Cut
  <2>2. ASSUME t.local[v] # NoLocal, ~t.available[v] PROVE t.owners[t.local[v]] = 0
    <3>1. v \notin Cut(s, F) /\ t.local[v] = s.local[v] /\ (~s.available[v] \/ v \in F)
      BY <1>2, <2>2
    <3>2. s.owners[s.local[v]] = 0
      BY <1>1, <2>2, <3>1 DEF AvailableHeld, Cut
    <3> QED BY <1>2, <3>1, <3>2
  <2> QED BY <2>1, <2>2
<1>6. \A l \in Locals : Unused(t, l) <=> Unused(s, l)
  <2> TAKE l \in Locals
  <2>1. CASE \E v \in Cut(s, F) : s.entry[l] = <<v>>
    <3>1. PICK v \in Cut(s, F) : s.entry[l] = <<v>>
      BY <2>1
    <3>2. v \in Selected
      <4>1. s.entry[l] \in Entries /\ s.entry[l] # NoEntry
        BY <1>1, <3>1, EntryDistinct DEF StoreTyped
      <4>2. PICK u \in Selected : s.entry[l] = <<u>>
        BY <4>1 DEF Entries
      <4> QED BY <3>1, <4>2, EntryDistinct
    <3>3. s.local[v] = l /\ s.owners[l] # 0
      BY <1>1, <3>1, <3>2 DEF EntriesMatch, Cut
    <3> QED BY <1>2, <3>3 DEF Unused
  <2>2. CASE ~\E v \in Cut(s, F) : s.entry[l] = <<v>>
    BY <1>2, <2>2 DEF Unused
  <2> QED BY <2>1, <2>2
<1>7. FreeExact(t)
  BY <1>1, <1>2, <1>6 DEF FreeExact, InFree
<1>8. \A v \in Selected : t.available[v] => t.local[v] = s.local[v]
  <2> TAKE v \in Selected
  <2> HAVE t.available[v]
  <2>1. v \notin Cut(s, F)
    BY <1>2 DEF Cut
  <2> QED BY <1>2, <2>1
<1> QED BY <1>2, <1>3, <1>4, <1>5, <1>7, <1>8 DEF StoreInv

-----------------------------------------------------------------------------
(* Who holds which local.                                                   *)

\* Where the input a handle stands for is, and what it was when captured.
Place(pd, w) == pd[w[1]].inputs[w[2]].local
Kept(pd, w) == pd[w[1]].inputs[w[2]].value
HandlesAt(pd, W, l) == {w \in W : Place(pd, w) = l}
HeldAt(h, l) == {r \in Regs : h[r] = l}
Counted(owners, pd, W, h) ==
    /\ IsFiniteSet(W)
    /\ \A l \in Locals : owners[l] = Cardinality(HandlesAt(pd, W, l)) + Cardinality(HeldAt(h, l))

\* A store together with its holders: the handles W of the producers pd, the
\* registers h whose known value is a local, and the registers' values R.
Handed(s, pd, W, h, R) ==
    /\ StoreInv(s)
    /\ Counted(s.owners, pd, W, h)
    /\ \A w \in W : Place(pd, w) \in Locals /\ s.content[Place(pd, w)] = Kept(pd, w)
    /\ h \in [Regs -> Locals \cup {NoLocal}]
    /\ \A r \in Regs : h[r] # NoLocal => s.content[h[r]] = R[r]
    /\ \A v \in Selected : s.available[v] => UsedValue(s, v) = Masked(v[2], R[v[1]])

LEMMA CountsFinite ==
    ASSUME NEW pd, NEW W, IsFiniteSet(W), NEW h, NEW l
    PROVE  /\ IsFiniteSet(HandlesAt(pd, W, l)) /\ Cardinality(HandlesAt(pd, W, l)) \in Nat
           /\ IsFiniteSet(HeldAt(h, l)) /\ Cardinality(HeldAt(h, l)) \in Nat
<1>1. IsFiniteSet(HandlesAt(pd, W, l))
  BY FS_Subset DEF HandlesAt
<1>2. IsFiniteSet(HeldAt(h, l))
  BY FS_Subset, BlockAssumption DEF HeldAt
<1> QED BY <1>1, <1>2, FS_CardinalityType

\* A local some handle or register holds has an owner.
LEMMA HeldIsOwned ==
    ASSUME NEW owners, NEW pd, NEW W, NEW h, Counted(owners, pd, W, h), NEW l \in Locals,
           (\E w \in W : Place(pd, w) = l) \/ (\E r \in Regs : h[r] = l)
    PROVE  owners[l] # 0
<1> DEFINE A == HandlesAt(pd, W, l)
           B == HeldAt(h, l)
<1>1. /\ IsFiniteSet(A) /\ Cardinality(A) \in Nat /\ IsFiniteSet(B) /\ Cardinality(B) \in Nat
      /\ owners[l] = Cardinality(A) + Cardinality(B)
  BY CountsFinite DEF Counted
<1>2. A # {} \/ B # {}
  BY DEF HandlesAt, HeldAt
<1>3. Cardinality(A) # 0 \/ Cardinality(B) # 0
  BY <1>1, <1>2, FS_EmptySet
<1> QED BY <1>1, <1>3

LEMMA CountAdd ==
    ASSUME NEW owners \in [Locals -> Nat], NEW pd, NEW W, NEW h, Counted(owners, pd, W, h),
           NEW w, w \notin W, NEW l \in Locals, Place(pd, w) = l,
           NEW after, after = [owners EXCEPT ![l] = @ + 1]
    PROVE  Counted(after, pd, W \cup {w}, h)
<1> DEFINE V == W \cup {w}
<1>1. IsFiniteSet(V)
  BY FS_AddElement DEF Counted
<1>2. ASSUME NEW k \in Locals
      PROVE  after[k] = Cardinality(HandlesAt(pd, V, k)) + Cardinality(HeldAt(h, k))
  <2>1. /\ IsFiniteSet(HandlesAt(pd, W, k)) /\ Cardinality(HandlesAt(pd, W, k)) \in Nat
        /\ Cardinality(HeldAt(h, k)) \in Nat
        /\ owners[k] = Cardinality(HandlesAt(pd, W, k)) + Cardinality(HeldAt(h, k))
    BY CountsFinite DEF Counted
  <2>2. CASE k = l
    <3>1. HandlesAt(pd, V, k) = HandlesAt(pd, W, k) \cup {w}
      BY <2>2 DEF HandlesAt
    <3>2. w \notin HandlesAt(pd, W, k)
      BY DEF HandlesAt
    <3>3. Cardinality(HandlesAt(pd, V, k)) = Cardinality(HandlesAt(pd, W, k)) + 1
      BY <2>1, <3>1, <3>2, FS_AddElement
    <3> QED BY <2>1, <2>2, <3>3
  <2>3. CASE k # l
    <3>1. HandlesAt(pd, V, k) = HandlesAt(pd, W, k)
      BY <2>3 DEF HandlesAt
    <3> QED BY <2>1, <2>3, <3>1
  <2> QED BY <2>2, <2>3
<1> QED BY <1>1, <1>2 DEF Counted

LEMMA CountRemove ==
    ASSUME NEW owners \in [Locals -> Nat], NEW pd, NEW W, NEW h, Counted(owners, pd, W, h),
           NEW w \in W, NEW l \in Locals, Place(pd, w) = l,
           NEW after, after = [owners EXCEPT ![l] = @ - 1]
    PROVE  Counted(after, pd, W \ {w}, h)
<1> DEFINE V == W \ {w}
<1>1. IsFiniteSet(V)
  BY FS_RemoveElement DEF Counted
<1>2. ASSUME NEW k \in Locals
      PROVE  after[k] = Cardinality(HandlesAt(pd, V, k)) + Cardinality(HeldAt(h, k))
  <2>1. /\ IsFiniteSet(HandlesAt(pd, W, k)) /\ Cardinality(HandlesAt(pd, W, k)) \in Nat
        /\ Cardinality(HeldAt(h, k)) \in Nat
        /\ owners[k] = Cardinality(HandlesAt(pd, W, k)) + Cardinality(HeldAt(h, k))
    BY CountsFinite DEF Counted
  <2>2. CASE k = l
    <3>1. HandlesAt(pd, V, k) = HandlesAt(pd, W, k) \ {w}
      BY <2>2 DEF HandlesAt
    <3>2. w \in HandlesAt(pd, W, k)
      BY <2>2 DEF HandlesAt
    <3>3. Cardinality(HandlesAt(pd, V, k)) = Cardinality(HandlesAt(pd, W, k)) - 1
      BY <2>1, <3>1, <3>2, FS_RemoveElement
    <3> QED BY <2>1, <2>2, <3>3
  <2>3. CASE k # l
    <3>1. HandlesAt(pd, V, k) = HandlesAt(pd, W, k)
      BY <2>3 DEF HandlesAt
    <3> QED BY <2>1, <2>3, <3>1
  <2> QED BY <2>2, <2>3
<1> QED BY <1>1, <1>2 DEF Counted

\* What the counts say depends on the producers of the handles only.
LEMMA CountSame ==
    ASSUME NEW owners, NEW pd, NEW W, NEW h, Counted(owners, pd, W, h),
           NEW pd2, \A w \in W : Place(pd2, w) = Place(pd, w)
    PROVE  Counted(owners, pd2, W, h)
<1>1. \A l \in Locals : HandlesAt(pd2, W, l) = HandlesAt(pd, W, l)
  BY DEF HandlesAt
<1> QED BY <1>1 DEF Counted

LEMMA CountDrop ==
    ASSUME NEW owners \in [Locals -> Nat], NEW pd, NEW W, NEW h, Counted(owners, pd, W, h),
           h \in [Regs -> Locals \cup {NoLocal}], NEW r \in Regs, h[r] # NoLocal,
           NEW after, after = [owners EXCEPT ![h[r]] = @ - 1],
           NEW g, g = [h EXCEPT ![r] = NoLocal]
    PROVE  Counted(after, pd, W, g)
<1>1. ASSUME NEW k \in Locals
      PROVE  after[k] = Cardinality(HandlesAt(pd, W, k)) + Cardinality(HeldAt(g, k))
  <2>0. k # NoLocal /\ h[r] \in Locals
    BY DEF Locals, NoLocal
  <2>1. /\ IsFiniteSet(HeldAt(h, k)) /\ Cardinality(HandlesAt(pd, W, k)) \in Nat
        /\ Cardinality(HeldAt(h, k)) \in Nat
        /\ owners[k] = Cardinality(HandlesAt(pd, W, k)) + Cardinality(HeldAt(h, k))
    BY CountsFinite DEF Counted
  <2>2. CASE k = h[r]
    <3>1. HeldAt(g, k) = HeldAt(h, k) \ {r} /\ r \in HeldAt(h, k)
      BY <2>0, <2>2 DEF HeldAt
    <3>2. Cardinality(HeldAt(g, k)) = Cardinality(HeldAt(h, k)) - 1
      BY <2>1, <3>1, FS_RemoveElement
    <3> QED BY <2>1, <2>2, <3>2
  <2>3. CASE k # h[r]
    <3>1. HeldAt(g, k) = HeldAt(h, k)
      BY <2>0, <2>3 DEF HeldAt
    <3> QED BY <2>0, <2>1, <2>3, <3>1
  <2> QED BY <2>2, <2>3
<1> QED BY <1>1 DEF Counted

\* A handle becomes the known value of a register that has none.
LEMMA CountMove ==
    ASSUME NEW owners, NEW pd, NEW W, NEW h, Counted(owners, pd, W, h),
           h \in [Regs -> Locals \cup {NoLocal}], NEW r \in Regs, h[r] = NoLocal,
           NEW w \in W, NEW l \in Locals, Place(pd, w) = l,
           NEW g, g = [h EXCEPT ![r] = l]
    PROVE  Counted(owners, pd, W \ {w}, g)
<1> DEFINE V == W \ {w}
<1>1. IsFiniteSet(V)
  BY FS_RemoveElement DEF Counted
<1>2. ASSUME NEW k \in Locals
      PROVE  owners[k] = Cardinality(HandlesAt(pd, V, k)) + Cardinality(HeldAt(g, k))
  <2>0. k # NoLocal
    BY DEF Locals, NoLocal
  <2>1. /\ IsFiniteSet(HeldAt(h, k)) /\ Cardinality(HandlesAt(pd, W, k)) \in Nat
        /\ IsFiniteSet(HandlesAt(pd, W, k)) /\ Cardinality(HeldAt(h, k)) \in Nat
        /\ owners[k] = Cardinality(HandlesAt(pd, W, k)) + Cardinality(HeldAt(h, k))
    BY CountsFinite DEF Counted
  <2>2. CASE k = l
    <3>1. HandlesAt(pd, V, k) = HandlesAt(pd, W, k) \ {w} /\ w \in HandlesAt(pd, W, k)
      BY <2>2 DEF HandlesAt
    <3>2. HeldAt(g, k) = HeldAt(h, k) \cup {r} /\ r \notin HeldAt(h, k)
      BY <2>0, <2>2 DEF HeldAt
    <3>3. Cardinality(HandlesAt(pd, V, k)) = Cardinality(HandlesAt(pd, W, k)) - 1
      <4>1. Cardinality(HandlesAt(pd, W, k) \ {w}) = Cardinality(HandlesAt(pd, W, k)) - 1
        BY <2>1, <3>1, FS_RemoveElement
      <4> QED BY <3>1, <4>1
    <3>4. Cardinality(HeldAt(g, k)) = Cardinality(HeldAt(h, k)) + 1
      BY <2>1, <3>2, FS_AddElement
    <3> QED BY <2>1, <3>3, <3>4
  <2>3. CASE k # l
    <3>1. HandlesAt(pd, V, k) = HandlesAt(pd, W, k) /\ HeldAt(g, k) = HeldAt(h, k)
      BY <2>0, <2>3 DEF HandlesAt, HeldAt
    <3> QED BY <2>1, <3>1
  <2> QED BY <2>2, <2>3
<1> QED BY <1>1, <1>2 DEF Counted

-----------------------------------------------------------------------------
(* What holders rely on survives every operation of the store.              *)

\* ReadValue for the registers R.
ValueIn(R, v) == Masked(v[2], R[v[1]])

\* A value is put into its local: nobody held what was there.
LEMMA HandedEmit ==
    ASSUME NEW s, NEW pd, NEW W, NEW h, NEW R, Handed(s, pd, W, h, R),
           NEW v \in Selected, s.local[v] # NoLocal \/ HasRoom(s),
           NEW t, t = EmitForUse(s, v, ValueIn(R, v))
    PROVE  /\ Handed(t, pd, W, h, R)
           /\ t.local[v] \in Locals /\ t.available[v] /\ t.content[t.local[v]] = ValueIn(R, v)
<1>1. /\ StoreInv(s) /\ Counted(s.owners, pd, W, h)
      /\ \A w \in W : Place(pd, w) \in Locals /\ s.content[Place(pd, w)] = Kept(pd, w)
      /\ h \in [Regs -> Locals \cup {NoLocal}]
      /\ \A r \in Regs : h[r] # NoLocal => s.content[h[r]] = R[r]
      /\ \A u \in Selected : s.available[u] => UsedValue(s, u) = ValueIn(R, u)
  BY DEF Handed, ValueIn
<1>2. /\ StoreInv(t)
      /\ t.local[v] \in Locals /\ t.available[v]
      /\ UsedValue(t, v) = IF s.available[v] THEN UsedValue(s, v) ELSE ValueIn(R, v)
      /\ t.owners = s.owners
      /\ \A l \in Locals : s.owners[l] # 0 => t.content[l] = s.content[l]
      /\ \A u \in Selected : u # v => (t.available[u] <=> s.available[u])
      /\ \A u \in Selected : s.available[u] => UsedValue(t, u) = UsedValue(s, u)
  BY <1>1, EmitForUseKeeps
<1>3. UsedValue(t, v) = ValueIn(R, v)
  BY <1>1, <1>2
<1>4. \A w \in W : Place(pd, w) \in Locals /\ t.content[Place(pd, w)] = Kept(pd, w)
  BY <1>1, <1>2, HeldIsOwned
<1>5. \A r \in Regs : h[r] # NoLocal => t.content[h[r]] = R[r]
  BY <1>1, <1>2, HeldIsOwned
<1>6. \A u \in Selected : t.available[u] => UsedValue(t, u) = ValueIn(R, u)
  BY <1>1, <1>2, <1>3
<1>7. Handed(t, pd, W, h, R)
  BY <1>1, <1>2, <1>4, <1>5, <1>6 DEF Handed, ValueIn
<1> QED BY <1>2, <1>3, <1>7 DEF UsedValue

\* A value is captured for one more handle.
LEMMA HandedCapture ==
    ASSUME NEW s, NEW pd, NEW W, NEW h, NEW R, Handed(s, pd, W, h, R),
           NEW v \in Selected, s.local[v] # NoLocal \/ HasRoom(s),
           NEW t, t = CaptureForReuse(s, v, ValueIn(R, v)),
           NEW w, w \notin W, Place(pd, w) = t.local[v], Kept(pd, w) = ValueIn(R, v)
    PROVE  Handed(t, pd, W \cup {w}, h, R)
<1>1. PICK m : m = EmitForUse(s, v, ValueIn(R, v))
  OBVIOUS
<1>2. /\ Handed(m, pd, W, h, R)
      /\ m.local[v] \in Locals /\ m.available[v] /\ m.content[m.local[v]] = ValueIn(R, v)
  BY <1>1, HandedEmit
<1>3. t = HandleForLocal(m, m.local[v])
  BY <1>1 DEF CaptureForReuse
<1>4. StoreInv(m)
  BY <1>2 DEF Handed
<1>5. /\ StoreInv(t)
      /\ t.owners = [m.owners EXCEPT ![m.local[v]] = @ + 1]
      /\ t.local = m.local /\ t.available = m.available /\ t.content = m.content
  BY <1>2, <1>3, <1>4, HandleKeeps
<1>6. m.owners \in [Locals -> Nat]
  BY <1>4 DEF StoreInv, StoreTyped
<1>7. Counted(t.owners, pd, W \cup {w}, h)
  BY <1>2, <1>5, <1>6, CountAdd DEF Handed
<1>8. \A x \in W \cup {w} : Place(pd, x) \in Locals /\ t.content[Place(pd, x)] = Kept(pd, x)
  BY <1>2, <1>5 DEF Handed
<1> QED BY <1>2, <1>5, <1>7, <1>8 DEF Handed, UsedValue

\* A handle is given back.
LEMMA HandedRelease ==
    ASSUME NEW s, NEW pd, NEW W, NEW h, NEW R, Handed(s, pd, W, h, R),
           NEW w \in W, NEW t, t = Release(s, Place(pd, w))
    PROVE  Handed(t, pd, W \ {w}, h, R)
<1> DEFINE l == Place(pd, w)
<1>1. StoreInv(s) /\ l \in Locals /\ s.owners[l] # 0 /\ s.owners \in [Locals -> Nat]
  BY HeldIsOwned DEF Handed, StoreInv, StoreTyped
<1>2. /\ StoreInv(t)
      /\ t.owners = [s.owners EXCEPT ![l] = @ - 1]
      /\ t.local = s.local /\ t.available = s.available /\ t.content = s.content
  BY <1>1, ReleaseKeeps
<1>3. Counted(t.owners, pd, W \ {w}, h)
  BY <1>1, <1>2, CountRemove DEF Handed
<1> QED BY <1>2, <1>3 DEF Handed, UsedValue

\* A register's known value is dropped.
LEMMA HandedDrop ==
    ASSUME NEW s, NEW pd, NEW W, NEW h, NEW R, Handed(s, pd, W, h, R),
           NEW r \in Regs, NEW t, t = IF h[r] = NoLocal THEN s ELSE Release(s, h[r]),
           NEW g, g = [h EXCEPT ![r] = NoLocal]
    PROVE  Handed(t, pd, W, g, R)
<1>0. h \in [Regs -> Locals \cup {NoLocal}] /\ g \in [Regs -> Locals \cup {NoLocal}]
  BY DEF Handed
<1>1. CASE h[r] = NoLocal
  <2>1. t = s /\ g = h
    BY <1>0, <1>1
  <2> QED BY <2>1
<1>2. CASE h[r] # NoLocal
  <2>1. StoreInv(s) /\ h[r] \in Locals /\ s.owners[h[r]] # 0 /\ s.owners \in [Locals -> Nat]
    BY <1>0, <1>2, HeldIsOwned DEF Handed, StoreInv, StoreTyped
  <2>2. /\ StoreInv(t)
        /\ t.owners = [s.owners EXCEPT ![h[r]] = @ - 1]
        /\ t.local = s.local /\ t.available = s.available /\ t.content = s.content
    BY <1>2, <2>1, ReleaseKeeps
  <2>3. Counted(t.owners, pd, W, g)
    BY <1>0, <1>2, <2>1, <2>2, CountDrop DEF Handed
  <2>4. \A q \in Regs : g[q] # NoLocal => t.content[g[q]] = R[q]
    BY <1>0, <2>2 DEF Handed
  <2> QED BY <1>0, <2>2, <2>3, <2>4 DEF Handed, UsedValue
<1> QED BY <1>1, <1>2

\* A register is written: what read it is forgotten, what others hold stays.
LEMMA HandedWrite ==
    ASSUME NEW s, NEW pd, NEW W, NEW h, NEW R, Handed(s, pd, W, h, R),
           NEW r \in Regs, h[r] = NoLocal,
           NEW t, t = ForgetWhere(s, ReadsOf(r)),
           NEW R2, \A q \in Regs : q # r => R2[q] = R[q]
    PROVE  Handed(t, pd, W, h, R2)
<1>1. StoreInv(s)
  BY DEF Handed
<1>2. /\ StoreInv(t)
      /\ t.owners = s.owners /\ t.content = s.content
      /\ \A v \in Selected : t.available[v] <=> s.available[v] /\ v \notin ReadsOf(r)
      /\ \A v \in Selected : t.available[v] => t.local[v] = s.local[v]
  BY <1>1, ForgetKeeps
<1>3. ASSUME NEW v \in Selected, t.available[v]
      PROVE  UsedValue(t, v) = Masked(v[2], R2[v[1]])
  <2>1. v[1] # r /\ v[1] \in Regs
    BY <1>2, <1>3, BlockAssumption DEF ReadsOf
  <2>2. UsedValue(t, v) = UsedValue(s, v) /\ UsedValue(s, v) = Masked(v[2], R[v[1]])
    BY <1>2, <1>3 DEF UsedValue, Handed
  <2> QED BY <2>1, <2>2
<1>4. \A q \in Regs : h[q] # NoLocal => t.content[h[q]] = R2[q]
  BY <1>2 DEF Handed
<1> QED BY <1>2, <1>3, <1>4 DEF Handed

\* Producers the handles do not refer to do not matter.
LEMMA HandedSame ==
    ASSUME NEW s, NEW pd, NEW W, NEW h, NEW R, Handed(s, pd, W, h, R),
           NEW pd2, \A w \in W : Place(pd2, w) = Place(pd, w) /\ Kept(pd2, w) = Kept(pd, w)
    PROVE  Handed(s, pd2, W, h, R)
<1>1. Counted(s.owners, pd2, W, h)
  BY CountSame DEF Handed
<1> QED BY <1>1 DEF Handed

\* A handle becomes a register's known value.
LEMMA HandedMove ==
    ASSUME NEW s, NEW pd, NEW W, NEW h, NEW R, Handed(s, pd, W, h, R),
           NEW w \in W, NEW r \in Regs, h[r] = NoLocal, R[r] = Kept(pd, w),
           NEW g, g = [h EXCEPT ![r] = Place(pd, w)]
    PROVE  Handed(s, pd, W \ {w}, g, R)
<1>1. /\ Place(pd, w) \in Locals /\ h \in [Regs -> Locals \cup {NoLocal}]
      /\ g \in [Regs -> Locals \cup {NoLocal}]
  BY DEF Handed
<1>2. Counted(s.owners, pd, W \ {w}, g)
  BY <1>1, CountMove DEF Handed
<1>3. \A q \in Regs : g[q] # NoLocal => s.content[g[q]] = R[q]
  BY <1>1 DEF Handed
<1> QED BY <1>1, <1>2, <1>3 DEF Handed

\* The inputs of a producer are given back one after the other.
LEMMA HandedInput ==
    ASSUME NEW s, NEW pd, NEW W, NEW h, NEW R, Handed(s, pd, W, h, R),
           NEW w, Place(pd, w) # NoLocal => w \in W,
           NEW t, t = ReleaseInput(s, pd[w[1]].inputs[w[2]])
    PROVE  Handed(t, pd, W \ {w}, h, R)
<1>1. CASE Place(pd, w) = NoLocal
  <2>1. t = s
    BY <1>1 DEF ReleaseInput, Place
  <2>2. w \notin W
    BY <1>1 DEF Handed, Locals, NoLocal
  <2>3. W \ {w} = W
    BY <2>2
  <2> QED BY <2>1, <2>3
<1>2. CASE Place(pd, w) # NoLocal
  <2>1. t = Release(s, Place(pd, w))
    BY <1>2 DEF ReleaseInput, Place
  <2> QED BY <1>2, <2>1, HandedRelease
<1> QED BY <1>1, <1>2

-----------------------------------------------------------------------------
(* The emitter's record.                                                    *)

JitShape(j) ==
    j = [source |-> j.source, pending |-> j.pending, released |-> j.released, local |-> j.local,
         materialized |-> j.materialized, dirty |-> j.dirty, stored |-> j.stored, store |-> j.store]
Producing(j) == 1 .. Len(j.pending)
\* The handles of the producers that have not given them back.
Waiting(j) ==
    {w \in Producing(j) \X InputNames : w[1] \notin j.released /\ Place(j.pending, w) # NoLocal}
JitTyped(j) ==
    /\ JitShape(j)
    /\ \E S : j.pending \in Seq(S)
    /\ j.source = [f \in Flags |-> j.source[f]]
    /\ \A f \in Flags : j.source[f] \in {Incoming, FlagsLocal} \cup Producing(j)
    /\ j.released \subseteq Producing(j)
JitHanded(j, h, R) == Handed(j.store, j.pending, Waiting(j), h, R)

\* Two records that differ in their stores and what was released only.
SameFlags(s, j) ==
    /\ s.source = j.source /\ s.pending = j.pending /\ s.local = j.local
    /\ s.materialized = j.materialized /\ s.dirty = j.dirty /\ s.stored = j.stored

\* The store once the inputs of a producer are given back.
InputsReleased(store, inputs) ==
    ReleaseInput(ReleaseInput(ReleaseInput(store, inputs["left"]), inputs["right"]), inputs["result"])
InputsGivenBack(s, p) == [ReleaseInputs(s, p) EXCEPT !.released = @ \cup {p}]

LEMMA ReleaseInputsFields ==
    ASSUME NEW s, JitShape(s), NEW p, NEW t, t = InputsGivenBack(s, p)
    PROVE  /\ JitShape(t) /\ SameFlags(t, s) /\ t.released = s.released \cup {p}
           /\ t.store = InputsReleased(s.store, s.pending[p].inputs)
<1>1. PICK st : st = InputsReleased(s.store, s.pending[p].inputs)
  OBVIOUS
<1>2. t = [[s EXCEPT !.store = st] EXCEPT !.released = @ \cup {p}]
  BY <1>1 DEF ReleaseInputs, InputsReleased, InputsGivenBack
<1>3. JitShape(t) /\ SameFlags(t, s) /\ t.released = s.released \cup {p} /\ t.store = st
  BY <1>2 DEF JitShape, SameFlags
<1> QED BY <1>1, <1>3

\* A producer no flag refers to gives up all of its handles, and only those.
LEMMA ReleaseOne ==
    ASSUME NEW s, JitTyped(s), NEW h, NEW R, JitHanded(s, h, R), NEW p \in Producing(s),
           NEW t, t = ReleaseIfUnreferenced(s, p)
    PROVE  /\ JitTyped(t) /\ SameFlags(t, s) /\ JitHanded(t, h, R)
           /\ t.released = IF Referenced(s, p) THEN s.released ELSE s.released \cup {p}
<1>1. CASE p \in s.released \/ Referenced(s, p)
  <2>1. t = s
    BY <1>1 DEF ReleaseIfUnreferenced
  <2> QED BY <1>1, <2>1 DEF SameFlags
<1>2. CASE ~(p \in s.released \/ Referenced(s, p))
  <2> DEFINE pd == s.pending
             W == Waiting(s)
             a == <<p, "left">>
             b == <<p, "right">>
             c == <<p, "result">>
  <2>1. t = InputsGivenBack(s, p)
    BY <1>2 DEF ReleaseIfUnreferenced, InputsGivenBack
  <2>2. PICK s1, s2, s3 : /\ s1 = ReleaseInput(s.store, pd[p].inputs["left"])
                          /\ s2 = ReleaseInput(s1, pd[p].inputs["right"])
                          /\ s3 = ReleaseInput(s2, pd[p].inputs["result"])
    OBVIOUS
  <2>3. JitShape(t) /\ SameFlags(t, s) /\ t.released = s.released \cup {p} /\ t.store = s3
    <3>1. s3 = InputsReleased(s.store, pd[p].inputs)
      BY <2>2 DEF InputsReleased
    <3>2. JitShape(s)
      BY DEF JitTyped
    <3> QED BY <2>1, <3>1, <3>2, ReleaseInputsFields
  <2>4. /\ a[1] = p /\ a[2] = "left" /\ b[1] = p /\ b[2] = "right" /\ c[1] = p /\ c[2] = "result"
        /\ a # b /\ b # c /\ a # c
    OBVIOUS
  <2>5. \A n \in InputNames : Place(pd, <<p, n>>) # NoLocal => <<p, n>> \in W
    BY <1>2 DEF Waiting
  <2>6. /\ Place(pd, a) # NoLocal => a \in W
        /\ Place(pd, b) # NoLocal => b \in W
        /\ Place(pd, c) # NoLocal => c \in W
    BY <2>5 DEF InputNames
  <2> HIDE DEF a, b, c, W
  <2>7. Handed(s1, pd, W \ {a}, h, R)
    BY <2>2, <2>4, <2>6, HandedInput DEF JitHanded, W
  <2>8. Handed(s2, pd, (W \ {a}) \ {b}, h, R)
    BY <2>2, <2>4, <2>6, <2>7, HandedInput
  <2>9. Handed(s3, pd, ((W \ {a}) \ {b}) \ {c}, h, R)
    BY <2>2, <2>4, <2>6, <2>8, HandedInput
  <2>10. Waiting(t) = ((W \ {a}) \ {b}) \ {c}
    <3>1. Producing(t) = Producing(s) /\ t.pending = pd
      BY <2>3 DEF Producing, SameFlags
    <3>2. \A w \in Producing(s) \X InputNames : w[1] = p <=> w \in {a, b, c}
      BY DEF a, b, c, InputNames
    <3>3. \A w : w \in Waiting(t) <=> w \in W /\ w[1] # p
      BY <2>3, <3>1 DEF Waiting, W
    <3>4. \A w \in W : w \in Producing(s) \X InputNames
      BY DEF Waiting, W
    <3> QED BY <3>2, <3>3, <3>4
  <2>11. JitHanded(t, h, R)
    BY <2>3, <2>9, <2>10 DEF JitHanded, SameFlags
  <2>12. JitTyped(t)
    BY <2>3 DEF JitTyped, SameFlags, Producing
  <2> QED BY <1>2, <2>3, <2>11, <2>12
<1> QED BY <1>1, <1>2

\* Every producer has given its inputs back exactly when no flag refers to it.
ReleasedExact(j) == \A p \in Producing(j) : p \in j.released <=> ~Referenced(j, p)

SourceSet(source, mask, src) == [f \in Flags |-> IF f \in mask THEN src ELSE source[f]]

\* The flags of F have given up the producers they referred to before.
Released(source, mask, src, f) == f \in mask /\ source[f] \notin {Incoming, FlagsLocal, src}
Releasing(s, next, source, mask, src, F, h, R) ==
    /\ JitTyped(s) /\ SameFlags(s, next) /\ JitHanded(s, h, R)
    /\ next.released \subseteq s.released
    /\ \A p \in s.released : p \in next.released \/ ~Referenced(next, p)
    /\ \A f \in F : Released(source, mask, src, f) =>
                      source[f] \in s.released \/ Referenced(next, source[f])
ReleaseStep(s, source, mask, src, f) ==
    IF Released(source, mask, src, f) THEN ReleaseIfUnreferenced(s, source[f]) ELSE s

LEMMA ReleaseStepKeeps ==
    ASSUME NEW next, NEW source, NEW mask, NEW src, NEW h, NEW R, NEW F, NEW s,
           Releasing(s, next, source, mask, src, F, h, R),
           NEW f \in Flags, source[f] \in {Incoming, FlagsLocal} \cup Producing(next),
           NEW t, t = ReleaseStep(s, source, mask, src, f)
    PROVE  Releasing(t, next, source, mask, src, F \cup {f}, h, R)
<1>1. CASE ~Released(source, mask, src, f)
  BY <1>1 DEF ReleaseStep, Releasing
<1>2. CASE Released(source, mask, src, f)
  <2> DEFINE p == source[f]
  <2>1. JitTyped(s) /\ SameFlags(s, next) /\ JitHanded(s, h, R)
    BY DEF Releasing
  <2>2. p \in Producing(s)
    BY <1>2, <2>1 DEF Released, SameFlags, Producing
  <2>3. t = ReleaseIfUnreferenced(s, p)
    BY <1>2 DEF ReleaseStep
  <2> HIDE DEF p
  <2>4. /\ JitTyped(t) /\ SameFlags(t, s) /\ JitHanded(t, h, R)
        /\ t.released = IF Referenced(s, p) THEN s.released ELSE s.released \cup {p}
    BY <2>1, <2>2, <2>3, ReleaseOne
  <2>5. Referenced(s, p) <=> Referenced(next, p)
    BY <2>1 DEF Referenced, SameFlags
  <2>6. SameFlags(t, next)
    BY <2>1, <2>4 DEF SameFlags
  <2>7. next.released \subseteq t.released
    BY <2>4 DEF Releasing
  <2>8. \A q \in t.released : q \in next.released \/ ~Referenced(next, q)
    BY <2>4, <2>5 DEF Releasing
  <2>9. \A g \in F \cup {f} : Released(source, mask, src, g) =>
                                source[g] \in t.released \/ Referenced(next, source[g])
    BY <2>4, <2>5 DEF Releasing, p
  <2> QED BY <2>4, <2>6, <2>7, <2>8, <2>9 DEF Releasing
<1> QED BY <1>1, <1>2

LEMMA SetSourceSteps ==
    ASSUME NEW j, NEW mask, NEW src, NEW t, t = SetSource(j, mask, src),
           NEW next, next = [j EXCEPT !.source = SourceSet(@, mask, src)]
    PROVE  \E s1, s2, s3, s4, s5 :
             /\ s1 = ReleaseStep(next, j.source, mask, src, "CF")
             /\ s2 = ReleaseStep(s1, j.source, mask, src, "PF")
             /\ s3 = ReleaseStep(s2, j.source, mask, src, "AF")
             /\ s4 = ReleaseStep(s3, j.source, mask, src, "ZF")
             /\ s5 = ReleaseStep(s4, j.source, mask, src, "SF")
             /\ t = ReleaseStep(s5, j.source, mask, src, "OF")
<1> DEFINE Step(s, f) == ReleaseStep(s, j.source, mask, src, f)
<1>1. t = InFlagOrder(Step, next)
  BY DEF SetSource, InFlagOrder, ReleaseStep, Released, SourceSet
<1>2. t = Step(Step(Step(Step(Step(Step(next, "CF"), "PF"), "AF"), "ZF"), "SF"), "OF")
  BY <1>1 DEF InFlagOrder
<1> QED BY <1>2

LEMMA SetSourceKeeps ==
    ASSUME NEW j, JitTyped(j), NEW h, NEW R, JitHanded(j, h, R), NEW mask \in SUBSET Flags,
           NEW src \in {FlagsLocal} \cup Producing(j), src \in Producing(j) => mask # {},
           src \notin j.released,
           \A p \in Producing(j) : p # src => (p \in j.released <=> ~Referenced(j, p)),
           NEW t, t = SetSource(j, mask, src)
    PROVE  /\ JitTyped(t) /\ ReleasedExact(t) /\ JitHanded(t, h, R)
           /\ t.source = SourceSet(j.source, mask, src)
           /\ t.pending = j.pending /\ t.local = j.local /\ t.materialized = j.materialized
           /\ t.dirty = j.dirty /\ t.stored = j.stored
<1>1. PICK next : next = [j EXCEPT !.source = SourceSet(@, mask, src)]
  OBVIOUS
<1>2. /\ JitShape(next) /\ next.source = SourceSet(j.source, mask, src)
      /\ next.pending = j.pending /\ next.local = j.local /\ next.materialized = j.materialized
      /\ next.dirty = j.dirty /\ next.stored = j.stored
      /\ next.released = j.released /\ next.store = j.store
  BY <1>1 DEF JitTyped, JitShape
<1>3. Producing(next) = Producing(j) /\ Waiting(next) = Waiting(j)
  BY <1>2 DEF Producing, Waiting
<1>4. \A f \in Flags : j.source[f] \in {Incoming, FlagsLocal} \cup Producing(next)
  BY <1>3 DEF JitTyped
<1>5. Releasing(next, next, j.source, mask, src, {}, h, R)
  <2>1. JitTyped(next)
    <3>1. \A f \in Flags : next.source[f] \in {Incoming, FlagsLocal} \cup Producing(next)
      BY <1>2, <1>3, <1>4 DEF SourceSet
    <3>2. next.source = [f \in Flags |-> next.source[f]]
      BY <1>2 DEF SourceSet
    <3> QED BY <1>2, <1>3, <3>1, <3>2 DEF JitTyped
  <2>2. JitHanded(next, h, R)
    BY <1>2, <1>3 DEF JitHanded
  <2> QED BY <2>1, <2>2 DEF Releasing, SameFlags
<1>6. Releasing(t, next, j.source, mask, src, Flags, h, R)
  <2>1. PICK s1, s2, s3, s4, s5 :
             /\ s1 = ReleaseStep(next, j.source, mask, src, "CF")
             /\ s2 = ReleaseStep(s1, j.source, mask, src, "PF")
             /\ s3 = ReleaseStep(s2, j.source, mask, src, "AF")
             /\ s4 = ReleaseStep(s3, j.source, mask, src, "ZF")
             /\ s5 = ReleaseStep(s4, j.source, mask, src, "SF")
             /\ t = ReleaseStep(s5, j.source, mask, src, "OF")
    BY <1>1, SetSourceSteps
  <2> DEFINE Rel(s, F) == Releasing(s, next, j.source, mask, src, F, h, R)
  <2>2. Rel(s1, {} \cup {"CF"})
    BY <1>4, <1>5, <2>1, ReleaseStepKeeps DEF Flags
  <2>3. Rel(s2, ({} \cup {"CF"}) \cup {"PF"})
    BY <1>4, <2>1, <2>2, ReleaseStepKeeps DEF Flags
  <2>4. Rel(s3, (({} \cup {"CF"}) \cup {"PF"}) \cup {"AF"})
    BY <1>4, <2>1, <2>3, ReleaseStepKeeps DEF Flags
  <2>5. Rel(s4, ((({} \cup {"CF"}) \cup {"PF"}) \cup {"AF"}) \cup {"ZF"})
    BY <1>4, <2>1, <2>4, ReleaseStepKeeps DEF Flags
  <2>6. Rel(s5, (((({} \cup {"CF"}) \cup {"PF"}) \cup {"AF"}) \cup {"ZF"}) \cup {"SF"})
    BY <1>4, <2>1, <2>5, ReleaseStepKeeps DEF Flags
  <2>7. Rel(t, ((((({} \cup {"CF"}) \cup {"PF"}) \cup {"AF"}) \cup {"ZF"}) \cup {"SF"}) \cup {"OF"})
    BY <1>4, <2>1, <2>6, ReleaseStepKeeps DEF Flags
  <2>8. ((((({} \cup {"CF"}) \cup {"PF"}) \cup {"AF"}) \cup {"ZF"}) \cup {"SF"}) \cup {"OF"} = Flags
    BY DEF Flags
  <2> QED BY <2>7, <2>8
<1>7. JitTyped(t) /\ JitHanded(t, h, R) /\ SameFlags(t, next)
  BY <1>6 DEF Releasing
<1>8. ReleasedExact(t)
  <2>1. \A p : Referenced(t, p) <=> Referenced(next, p)
    BY <1>7 DEF Referenced, SameFlags
  <2>2. Producing(t) = Producing(j)
    BY <1>2, <1>7 DEF Producing, SameFlags
  <2>3. ASSUME NEW p \in Producing(j), p \in t.released PROVE ~Referenced(next, p)
    <3>1. CASE p \in j.released
      <4>1. ~Referenced(j, p) /\ p # src
        BY <3>1
      <4> QED BY <1>2, <4>1 DEF Referenced, SourceSet
    <3>2. CASE p \notin j.released
      BY <1>2, <1>6, <2>3, <3>2 DEF Releasing
    <3> QED BY <3>1, <3>2
  <2>4. ASSUME NEW p \in Producing(j), ~Referenced(next, p) PROVE p \in t.released
    <3>1. p # src
      <4>1. ASSUME p = src PROVE FALSE
        <5>1. PICK f \in mask : TRUE
          BY <4>1
        <5> QED BY <1>2, <2>4, <4>1, <5>1 DEF Referenced, SourceSet
      <4> QED BY <4>1
    <3>2. CASE ~Referenced(j, p)
      BY <1>2, <1>6, <3>1, <3>2 DEF Releasing
    <3>3. CASE Referenced(j, p)
      <4>1. PICK f \in Flags : j.source[f] = p
        BY <3>3 DEF Referenced
      <4>2. f \in mask
        BY <1>2, <2>4, <4>1 DEF Referenced, SourceSet
      <4>3. p \notin {Incoming, FlagsLocal}
        BY DEF Producing, Incoming, FlagsLocal
      <4>4. Released(j.source, mask, src, f)
        BY <3>1, <4>1, <4>2, <4>3 DEF Released
      <4> QED BY <1>6, <2>4, <4>1, <4>4 DEF Releasing
    <3> QED BY <3>2, <3>3
  <2> QED BY <2>1, <2>2, <2>3, <2>4 DEF ReleasedExact
<1> QED BY <1>2, <1>7, <1>8 DEF SameFlags

-----------------------------------------------------------------------------
(* Materialization.                                                         *)

\* What the emitter's record says about who holds which local.
Holding(j, h, R) == JitTyped(j) /\ ReleasedExact(j) /\ JitHanded(j, h, R)

\* The inputs of a producer as they were when its instruction executed.
KeptInputs(j, p) == [n \in InputNames |-> j.pending[p].inputs[n].value]
FlagsOf(j, p) == DefineFlags(j.pending[p].producer, j.pending[p].width, KeptInputs(j, p))

\* Every flag of the word w is where its source says.
Shown(j, w) ==
    \A f \in Flags :
      /\ j.source[f] = Incoming => j.stored[f] = w[f]
      /\ j.source[f] = FlagsLocal => j.local[f] = w[f]
      /\ j.source[f] \in Producing(j) =>
           /\ j.pending[j.source[f]].producer \in Producers
           /\ f \in WrittenMask[j.pending[j.source[f]].producer]
           /\ FlagsOf(j, j.source[f])[f] = w[f]
\* Without a pending store the flags local says what memory says.
Clean(j) == ~j.dirty => \A f \in Flags : j.source[f] = FlagsLocal => j.local[f] = j.stored[f]
WordTyped(w) == w \in [Flags -> BOOLEAN]
Showing(j, w) ==
    /\ WordTyped(j.local) /\ WordTyped(j.stored)
    /\ j.materialized = {f \in Flags : j.source[f] = FlagsLocal}
    /\ Shown(j, w) /\ Clean(j)

\* What a producer defines are truth values.
Bits3(g, a, b, c) == DOMAIN g = {a, b, c} /\ g[a] \in BOOLEAN /\ g[b] \in BOOLEAN /\ g[c] \in BOOLEAN

LEMMA DefinedBoolean ==
    ASSUME NEW P \in Producers, NEW w, NEW in, NEW d, d = DefineFlags(P, w, in), NEW f \in Flags
    PROVE  d[f] \in BOOLEAN
<1>1. PICK res, z : res = Masked(w, in.result) /\ z = zspFlags(w, res)
  OBVIOUS
<1>2. Bits3(z, "ZF", "SF", "PF")
  BY <1>1 DEF Bits3, zspFlags, SignBit, Parity8
<1>3. PICK g : Bits3(g, "CF", "OF", "AF") /\ d = Spread(z, g)
  <2>1. CASE P = "logic"
    <3>1. PICK g : g = [CF |-> FALSE, OF |-> FALSE, AF |-> FALSE]
      OBVIOUS
    <3>2. d = Spread(z, g)
      BY <1>1, <2>1, <3>1 DEF DefineFlags
    <3>3. Bits3(g, "CF", "OF", "AF")
      BY <3>1 DEF Bits3
    <3> QED BY <3>2, <3>3
  <2>2. ASSUME NEW l, NEW r, NEW g, g = addCarryFlags(w, l, r, res)
        PROVE  Bits3(g, "CF", "OF", "AF")
    BY <2>2 DEF Bits3, addCarryFlags
  <2>3. ASSUME NEW l, NEW r, NEW g, g = subCarryFlags(w, l, r, res)
        PROVE  Bits3(g, "CF", "OF", "AF")
    BY <2>3 DEF Bits3, subCarryFlags
  <2>4. CASE P = "add"
    <3>1. d = Spread(z, addCarryFlags(w, in.left, in.right, res))
      BY <1>1, <2>4 DEF DefineFlags
    <3> QED BY <2>2, <3>1
  <2>5. CASE P = "sub"
    <3>1. d = Spread(z, subCarryFlags(w, in.left, in.right, res))
      BY <1>1, <2>5 DEF DefineFlags
    <3> QED BY <2>3, <3>1
  <2>6. CASE P = "inc"
    <3>1. d = Spread(z, addCarryFlags(w, in.left, 1, res))
      BY <1>1, <2>6 DEF DefineFlags
    <3> QED BY <2>2, <3>1
  <2>7. CASE P = "dec"
    <3>1. d = Spread(z, subCarryFlags(w, in.left, 1, res))
      BY <1>1, <2>7 DEF DefineFlags
    <3> QED BY <2>3, <3>1
  <2> QED BY <2>1, <2>4, <2>5, <2>6, <2>7 DEF Producers
<1>4. d[f] = IF f \in DOMAIN g THEN g[f] ELSE z[f]
  BY <1>3 DEF Spread
<1> QED BY <1>2, <1>3, <1>4 DEF Flags, Bits3

LEMMA SetFlagsTyped ==
    ASSUME NEW w, WordTyped(w), NEW d, d.producer \in Producers, NEW mask
    PROVE  WordTyped(emitSetFlags(w, d, mask))
<1> DEFINE bits(f) == IF f \in WrittenMask[d.producer] \cap mask
                      THEN DefineFlags(d.producer, d.width, d.inputs)[f] ELSE w[f]
<1>1. emitSetFlags(w, d, mask) = [f \in Flags |-> bits(f)]
  BY DEF emitSetFlags
<1>2. \A f \in Flags : bits(f) \in BOOLEAN
  BY DefinedBoolean DEF WordTyped
<1> HIDE DEF bits
<1> QED BY <1>1, <1>2 DEF WordTyped

LEMMA SourceKinds ==
    ASSUME NEW j, JitTyped(j), NEW f \in Flags
    PROVE  /\ j.source[f] \in {Incoming, FlagsLocal} \cup Producing(j)
           /\ Incoming # FlagsLocal /\ Incoming \notin Producing(j) /\ FlagsLocal \notin Producing(j)
BY DEF JitTyped, Incoming, FlagsLocal, Producing

\* The holders do not depend on the flags' own fields.
LEMMA HoldingSame ==
    ASSUME NEW j, NEW h, NEW R, Holding(j, h, R), NEW t, JitShape(t),
           t.source = j.source, t.pending = j.pending, t.released = j.released, t.store = j.store
    PROVE  Holding(t, h, R)
<1>1. Producing(t) = Producing(j) /\ Waiting(t) = Waiting(j)
  BY DEF Producing, Waiting
<1>2. \A p : Referenced(t, p) <=> Referenced(j, p)
  BY DEF Referenced
<1> QED BY <1>1, <1>2 DEF Holding, JitTyped, ReleasedExact, JitHanded

\* The operands a producer waits for are still there.
LEMMA InputsKept ==
    ASSUME NEW j, NEW h, NEW R, Holding(j, h, R), NEW p \in Producing(j), Referenced(j, p)
    PROVE  PendingInputs(j, p) = KeptInputs(j, p)
<1>1. p \notin j.released
  BY DEF Holding, ReleasedExact
<1>2. ASSUME NEW n \in InputNames
      PROVE  InputValue(j, j.pending[p].inputs[n]) = j.pending[p].inputs[n].value
  <2> DEFINE w == <<p, n>>
  <2>1. Place(j.pending, w) = j.pending[p].inputs[n].local /\ Kept(j.pending, w) = j.pending[p].inputs[n].value
    BY DEF Place, Kept
  <2>2. CASE j.pending[p].inputs[n].local = NoLocal
    BY <2>2 DEF InputValue
  <2>3. CASE j.pending[p].inputs[n].local # NoLocal
    <3>1. w \in Waiting(j)
      BY <1>1, <2>1, <2>3 DEF Waiting
    <3>2. j.store.content[Place(j.pending, w)] = Kept(j.pending, w)
      BY <3>1 DEF Holding, JitHanded, Handed
    <3> QED BY <2>1, <2>3, <3>2 DEF InputValue
  <2> QED BY <2>2, <2>3
<1> QED BY <1>2 DEF PendingInputs, KeptInputs

LEMMA MaterializeOne ==
    ASSUME NEW j, NEW h, NEW R, Holding(j, h, R), NEW w, Showing(j, w),
           NEW p \in Producing(j), NEW mask \in SUBSET Flags, mask # {}, \A f \in mask : j.source[f] = p,
           NEW t, t = EmitPendingFlags(j, p, mask)
    PROVE  /\ Holding(t, h, R) /\ Showing(t, w)
           /\ t.source = SourceSet(j.source, mask, FlagsLocal)
           /\ t.pending = j.pending /\ t.stored = j.stored
<1> DEFINE d == Descriptor(j.pending[p].producer, j.pending[p].width, KeptInputs(j, p))
<1>0. JitTyped(j) /\ ReleasedExact(j) /\ JitHanded(j, h, R)
  BY DEF Holding
<1>1. PICK m : m = [j EXCEPT !.local = emitSetFlags(@, d, mask)]
  OBVIOUS
<1>2. PICK u : u = SetSource(m, mask, FlagsLocal)
  OBVIOUS
<1>3. t = [u EXCEPT !.materialized = @ \cup mask, !.dirty = TRUE]
  <2>1. Referenced(j, p)
    BY DEF Referenced
  <2>2. PendingInputs(j, p) = KeptInputs(j, p)
    BY <2>1, InputsKept
  <2> QED BY <1>1, <1>2, <2>2 DEF EmitPendingFlags
<1>4. /\ JitShape(m) /\ m.source = j.source /\ m.pending = j.pending /\ m.released = j.released
      /\ m.store = j.store /\ m.stored = j.stored /\ m.materialized = j.materialized
      /\ m.local = emitSetFlags(j.local, d, mask)
  BY <1>0, <1>1 DEF JitTyped, JitShape
<1>5. Holding(m, h, R)
  BY <1>4, HoldingSame
<1>6. /\ JitTyped(u) /\ ReleasedExact(u) /\ JitHanded(u, h, R)
      /\ u.source = SourceSet(j.source, mask, FlagsLocal)
      /\ u.pending = j.pending /\ u.local = m.local /\ u.materialized = j.materialized
      /\ u.stored = j.stored
  <2>1. FlagsLocal \notin Producing(m) /\ FlagsLocal \notin m.released
    BY <1>5 DEF Holding, JitTyped, Producing, FlagsLocal
  <2>2. \A q \in Producing(m) : q \in m.released <=> ~Referenced(m, q)
    BY <1>5 DEF Holding, ReleasedExact
  <2> QED BY <1>2, <1>4, <1>5, <2>1, <2>2, SetSourceKeeps DEF Holding
<1>7. /\ JitShape(t) /\ t.source = u.source /\ t.pending = u.pending /\ t.released = u.released
      /\ t.store = u.store /\ t.stored = u.stored /\ t.local = u.local
      /\ t.materialized = j.materialized \cup mask /\ t.dirty = TRUE
  BY <1>3, <1>6 DEF JitTyped, JitShape
<1>8. Holding(t, h, R)
  <2>1. Holding(u, h, R)
    BY <1>6 DEF Holding
  <2> QED BY <1>7, <2>1, HoldingSame
<1>9. t.source = SourceSet(j.source, mask, FlagsLocal)
  BY <1>6, <1>7
<1>10. \A f \in Flags : t.source[f] = IF f \in mask THEN FlagsLocal ELSE j.source[f]
  BY <1>9 DEF SourceSet
<1>11. \A f \in Flags : t.local[f] = IF f \in mask THEN FlagsOf(j, p)[f] ELSE j.local[f]
  <2> TAKE f \in Flags
  <2>1. f \in mask => f \in WrittenMask[j.pending[p].producer]
    BY DEF Showing, Shown
  <2>2. t.local[f] = IF f \in WrittenMask[j.pending[p].producer] \cap mask THEN FlagsOf(j, p)[f] ELSE j.local[f]
    BY <1>4, <1>6, <1>7 DEF emitSetFlags, Descriptor, FlagsOf
  <2> QED BY <2>1, <2>2
<1>12. Showing(t, w)
  <2>1. WordTyped(t.local) /\ WordTyped(t.stored)
    <3>1. t.local = emitSetFlags(j.local, d, mask) /\ t.stored = j.stored
      BY <1>4, <1>6, <1>7
    <3>2. d.producer \in Producers
      BY DEF Showing, Shown, Descriptor
    <3> QED BY <3>1, <3>2, SetFlagsTyped DEF Showing
  <2>2. t.materialized = {f \in Flags : t.source[f] = FlagsLocal}
    <3>1. j.materialized = {f \in Flags : j.source[f] = FlagsLocal}
      BY DEF Showing
    <3>2. \A f \in Flags : f \in t.materialized <=> f \in j.materialized \/ f \in mask
      BY <1>7
    <3>3. \A f \in t.materialized : f \in Flags
      BY <1>7, <3>1
    <3> QED BY <1>10, <3>1, <3>2, <3>3
  <2>3. Shown(t, w)
    <3>1. Producing(t) = Producing(j) /\ \A q : FlagsOf(t, q) = FlagsOf(j, q)
      BY <1>6, <1>7 DEF Producing, FlagsOf, KeptInputs
    <3>2. t.stored = j.stored /\ t.pending = j.pending
      BY <1>6, <1>7
    <3>3. ASSUME NEW f \in mask PROVE t.source[f] = FlagsLocal /\ t.local[f] = w[f]
      <4>1. FlagsOf(j, p)[f] = w[f]
        BY DEF Showing, Shown
      <4> QED BY <1>10, <1>11, <4>1
    <3>4. ASSUME NEW f \in Flags, f \notin mask
          PROVE  t.source[f] = j.source[f] /\ t.local[f] = j.local[f]
      BY <1>10, <1>11, <3>4
    <3>5. FlagsLocal # Incoming /\ FlagsLocal \notin Producing(j)
      BY DEF FlagsLocal, Incoming, Producing
    <3> QED BY <3>1, <3>2, <3>3, <3>4, <3>5 DEF Showing, Shown
  <2> QED BY <1>7, <2>1, <2>2, <2>3 DEF Showing, Clean
<1> QED BY <1>6, <1>7, <1>8, <1>9, <1>12

\* A record reached from j by materializing flags: no source is new but the local.
Materialized(t, j, h, R, w) ==
    /\ Holding(t, h, R) /\ Showing(t, w)
    /\ t.pending = j.pending /\ t.stored = j.stored
    /\ \A f \in Flags : t.source[f] = j.source[f] \/ t.source[f] = FlagsLocal
Emitted(t, F) == \A f \in F : t.source[f] \in {Incoming, FlagsLocal}

LEMMA PendingStepKeeps ==
    ASSUME NEW j, NEW h, NEW R, NEW w, NEW s, Materialized(s, j, h, R, w),
           NEW mask \in SUBSET Flags, NEW F, Emitted(s, F \cap mask), NEW f \in Flags,
           NEW t, t = EmitPendingOf(s, mask, f)
    PROVE  Materialized(t, j, h, R, w) /\ Emitted(t, (F \cup {f}) \cap mask)
<1>1. CASE ~(f \in mask /\ s.source[f] \notin {Incoming, FlagsLocal})
  BY <1>1 DEF EmitPendingOf, Emitted
<1>2. CASE f \in mask /\ s.source[f] \notin {Incoming, FlagsLocal}
  <2>1. PICK p, G : p = s.source[f] /\ G = {g \in mask : s.source[g] = s.source[f]}
    OBVIOUS
  <2>2. t = EmitPendingFlags(s, p, G)
    BY <1>2, <2>1 DEF EmitPendingOf
  <2>3. p \in Producing(s)
    BY <1>2, <2>1, SourceKinds DEF Materialized, Holding
  <2>4. G \in SUBSET Flags /\ f \in G /\ \A g \in G : s.source[g] = p
    BY <1>2, <2>1
  <2>5. /\ Holding(t, h, R) /\ Showing(t, w)
        /\ t.source = SourceSet(s.source, G, FlagsLocal)
        /\ t.pending = s.pending /\ t.stored = s.stored
    BY <2>2, <2>3, <2>4, MaterializeOne DEF Materialized
  <2>6. \A g \in Flags : t.source[g] = IF g \in G THEN FlagsLocal ELSE s.source[g]
    BY <2>5 DEF SourceSet
  <2>7. Materialized(t, j, h, R, w)
    BY <2>5, <2>6 DEF Materialized
  <2>8. Emitted(t, (F \cup {f}) \cap mask)
    BY <2>4, <2>6 DEF Emitted
  <2> QED BY <2>7, <2>8
<1> QED BY <1>1, <1>2

LEMMA MaterializePendingKeeps ==
    ASSUME NEW j, NEW h, NEW R, Holding(j, h, R), NEW w, Showing(j, w),
           NEW mask \in SUBSET Flags, NEW t, t = MaterializePending(j, mask)
    PROVE  Materialized(t, j, h, R, w) /\ Emitted(t, mask)
<1>1. PICK s1, s2, s3, s4, s5 :
         /\ s1 = EmitPendingOf(j, mask, "CF")
         /\ s2 = EmitPendingOf(s1, mask, "PF")
         /\ s3 = EmitPendingOf(s2, mask, "AF")
         /\ s4 = EmitPendingOf(s3, mask, "ZF")
         /\ s5 = EmitPendingOf(s4, mask, "SF")
         /\ t = EmitPendingOf(s5, mask, "OF")
  BY DEF MaterializePending, InFlagOrder
<1>2. /\ "CF" \in Flags /\ "PF" \in Flags /\ "AF" \in Flags
      /\ "ZF" \in Flags /\ "SF" \in Flags /\ "OF" \in Flags
  BY DEF Flags
<1>3. PICK F1, F2, F3, F4, F5, F6 :
        /\ F1 = {} \cup {"CF"} /\ F2 = F1 \cup {"PF"} /\ F3 = F2 \cup {"AF"}
        /\ F4 = F3 \cup {"ZF"} /\ F5 = F4 \cup {"SF"} /\ F6 = F5 \cup {"OF"}
  OBVIOUS
<1> DEFINE On(s, F) == Materialized(s, j, h, R, w) /\ Emitted(s, F \cap mask)
<1>4. On(j, {})
  BY DEF Materialized, Emitted
<1>5. On(s1, F1)
  BY <1>1, <1>2, <1>3, <1>4, PendingStepKeeps
<1>6. On(s2, F2)
  BY <1>1, <1>2, <1>3, <1>5, PendingStepKeeps
<1>7. On(s3, F3)
  BY <1>1, <1>2, <1>3, <1>6, PendingStepKeeps
<1>8. On(s4, F4)
  BY <1>1, <1>2, <1>3, <1>7, PendingStepKeeps
<1>9. On(s5, F5)
  BY <1>1, <1>2, <1>3, <1>8, PendingStepKeeps
<1>10. On(t, F6)
  <2>1. t = EmitPendingOf(s5, mask, "OF") /\ F6 = F5 \cup {"OF"}
    BY <1>1, <1>3
  <2> QED BY <1>2, <1>9, <2>1, PendingStepKeeps
<1>11. F6 \cap mask = mask
  BY <1>3 DEF Flags
<1> QED BY <1>10, <1>11

\* Flags that come from memory are loaded into the local beside those it has.
Loaded(j, mask) ==
    [f \in Flags |-> IF f \in mask \/ j.materialized = {} THEN j.stored[f] ELSE j.local[f]]

LEMMA MaterializeIncomingKeeps ==
    ASSUME NEW j, NEW h, NEW R, Holding(j, h, R), NEW w, Showing(j, w),
           NEW mask \in SUBSET Flags, \A f \in mask : j.source[f] = Incoming,
           NEW t, t = MaterializeIncoming(j, mask)
    PROVE  /\ Materialized(t, j, h, R, w)
           /\ \A f \in mask : t.source[f] = FlagsLocal
<1>1. CASE mask = {}
  BY <1>1 DEF MaterializeIncoming, Materialized
<1>2. CASE mask # {}
  <2>1. PICK u : u = SetSource(j, mask, FlagsLocal)
    OBVIOUS
  <2>2. /\ JitTyped(u) /\ ReleasedExact(u) /\ JitHanded(u, h, R)
        /\ u.source = SourceSet(j.source, mask, FlagsLocal)
        /\ u.pending = j.pending /\ u.local = j.local /\ u.materialized = j.materialized
        /\ u.dirty = j.dirty /\ u.stored = j.stored
    <3>1. FlagsLocal \notin Producing(j) /\ FlagsLocal \notin j.released
      BY DEF Holding, JitTyped, Producing, FlagsLocal
    <3>2. \A q \in Producing(j) : q \in j.released <=> ~Referenced(j, q)
      BY DEF Holding, ReleasedExact
    <3> QED BY <2>1, <3>1, <3>2, SetSourceKeeps DEF Holding
  <2>3. t = [u EXCEPT !.local = Loaded(j, mask), !.materialized = @ \cup mask]
    BY <1>2, <2>1, <2>2 DEF MaterializeIncoming, Loaded
  <2>4. /\ JitShape(t) /\ t.source = u.source /\ t.pending = u.pending /\ t.released = u.released
        /\ t.store = u.store /\ t.stored = u.stored /\ t.dirty = u.dirty
        /\ t.materialized = j.materialized \cup mask /\ t.local = Loaded(j, mask)
    BY <2>2, <2>3 DEF JitTyped, JitShape
  <2>5. Holding(t, h, R)
    <3>1. Holding(u, h, R)
      BY <2>2 DEF Holding
    <3> QED BY <2>4, <3>1, HoldingSame
  <2>6. \A f \in Flags : t.source[f] = IF f \in mask THEN FlagsLocal ELSE j.source[f]
    BY <2>2, <2>4 DEF SourceSet
  <2>7. /\ \A f \in mask : t.local[f] = j.stored[f]
        /\ \A f \in Flags : j.source[f] = FlagsLocal => t.local[f] = j.local[f]
    <3>1. \A f \in Flags : j.source[f] = FlagsLocal => j.materialized # {}
      BY DEF Showing
    <3>2. \A f \in Flags : j.source[f] = FlagsLocal => f \notin mask
      BY DEF Incoming, FlagsLocal
    <3> QED BY <2>4, <3>1, <3>2 DEF Loaded
  <2>8. Shown(t, w)
    <3>1. Producing(t) = Producing(j) /\ \A q : FlagsOf(t, q) = FlagsOf(j, q)
      BY <2>2, <2>4 DEF Producing, FlagsOf, KeptInputs
    <3>2. t.stored = j.stored /\ t.pending = j.pending
      BY <2>2, <2>4
    <3>3. ASSUME NEW f \in mask PROVE t.source[f] = FlagsLocal /\ t.local[f] = w[f]
      BY <2>6, <2>7 DEF Showing, Shown
    <3>4. FlagsLocal # Incoming /\ FlagsLocal \notin Producing(j)
      BY DEF FlagsLocal, Incoming, Producing
    <3> QED BY <2>6, <2>7, <3>1, <3>2, <3>3, <3>4 DEF Showing, Shown
  <2>9. t.materialized = {f \in Flags : t.source[f] = FlagsLocal}
    <3>1. j.materialized = {f \in Flags : j.source[f] = FlagsLocal}
      BY DEF Showing
    <3> QED BY <2>4, <2>6, <3>1
  <2>10. Clean(t)
    <3> SUFFICES ASSUME ~t.dirty, NEW f \in Flags, t.source[f] = FlagsLocal
                 PROVE  t.local[f] = t.stored[f]
      BY DEF Clean
    <3>1. CASE f \in mask
      BY <2>2, <2>4, <2>7, <3>1
    <3>2. CASE f \notin mask
      BY <2>2, <2>4, <2>6, <2>7, <3>2 DEF Showing, Clean
    <3> QED BY <3>1, <3>2
  <2>11. WordTyped(t.local) /\ WordTyped(t.stored)
    <3>1. WordTyped(j.local) /\ WordTyped(j.stored) /\ t.stored = j.stored
      BY <2>2, <2>4 DEF Showing
    <3>2. WordTyped(Loaded(j, mask))
      BY <3>1 DEF WordTyped, Loaded
    <3> QED BY <2>4, <3>1, <3>2
  <2> QED BY <2>2, <2>4, <2>5, <2>6, <2>8, <2>9, <2>10, <2>11 DEF Materialized, Showing
<1> QED BY <1>1, <1>2

LEMMA MaterializeFlagsKeeps ==
    ASSUME NEW j, NEW h, NEW R, Holding(j, h, R), NEW w, Showing(j, w),
           NEW mask \in SUBSET Flags, NEW t, t = MaterializeFlags(j, mask)
    PROVE  /\ Materialized(t, j, h, R, w)
           /\ \A f \in mask : t.source[f] = FlagsLocal
<1>1. PICK I, u : I = {f \in mask : j.source[f] = Incoming} /\ u = MaterializeIncoming(j, I)
  OBVIOUS
<1>2. I \in SUBSET Flags /\ \A f \in I : j.source[f] = Incoming
  BY <1>1
<1>3. Materialized(u, j, h, R, w) /\ \A f \in I : u.source[f] = FlagsLocal
  BY <1>1, <1>2, MaterializeIncomingKeeps
<1>4. t = MaterializePending(u, mask)
  BY <1>1 DEF MaterializeFlags
<1>5. Materialized(t, u, h, R, w) /\ Emitted(t, mask)
  BY <1>3, <1>4, MaterializePendingKeeps DEF Materialized
<1>6. Materialized(t, j, h, R, w)
  BY <1>3, <1>5 DEF Materialized
<1>7. ASSUME NEW f \in mask PROVE t.source[f] = FlagsLocal
  <2>1. u.source[f] # Incoming
    BY <1>1, <1>3 DEF Materialized, Incoming, FlagsLocal
  <2> QED BY <1>5, <2>1 DEF Materialized, Emitted
<1> QED BY <1>6, <1>7

LEMMA EmitMaterializeKeeps ==
    ASSUME NEW j, NEW h, NEW R, Holding(j, h, R), NEW w, Showing(j, w),
           NEW mask \in SUBSET Flags, NEW t, t = EmitMaterialize(j, mask)
    PROVE  /\ Materialized(t, j, h, R, w)
           /\ \A f \in mask : t.source[f] = FlagsLocal /\ t.local[f] = w[f]
<1>1. PICK M : M = mask \ j.materialized
  OBVIOUS
<1>2. M \in SUBSET Flags /\ t = MaterializeFlags(j, M)
  BY <1>1 DEF EmitMaterialize
<1>3. Materialized(t, j, h, R, w) /\ \A f \in M : t.source[f] = FlagsLocal
  BY <1>2, MaterializeFlagsKeeps
<1>4. \A f \in mask \ M : j.source[f] = FlagsLocal
  BY <1>1 DEF Showing
<1> QED BY <1>3, <1>4 DEF Materialized, Showing, Shown

LEMMA EmitBoundaryKeeps ==
    ASSUME NEW j, NEW h, NEW R, Holding(j, h, R), NEW w, Showing(j, w), WordTyped(w),
           NEW mask \in SUBSET Flags, \A f \in Flags : j.source[f] \in Producing(j) => f \in mask,
           NEW t, t = EmitBoundary(j, mask)
    PROVE  /\ Holding(t, h, R) /\ Showing(t, w) /\ t.stored = w /\ t.pending = j.pending
           /\ \A f \in Flags : t.source[f] = j.source[f] \/ t.source[f] = FlagsLocal
<1>1. PICK M, some : M = mask \ j.materialized /\ some = MaterializePending(j, M)
  OBVIOUS
<1>2. PICK A, all : A = Flags \ some.materialized /\ all = MaterializeFlags(some, A)
  OBVIOUS
<1>3. t = IF some.dirty THEN [all EXCEPT !.stored = all.local, !.dirty = FALSE] ELSE some
  BY <1>1, <1>2 DEF EmitBoundary
<1>4. Materialized(some, j, h, R, w) /\ Emitted(some, M)
  BY <1>1, MaterializePendingKeeps
<1>5. Materialized(all, some, h, R, w) /\ \A f \in A : all.source[f] = FlagsLocal
  BY <1>2, <1>4, MaterializeFlagsKeeps DEF Materialized
<1>6. CASE some.dirty
  <2>1. t = [all EXCEPT !.stored = all.local, !.dirty = FALSE]
    BY <1>3, <1>6
  <2>2. /\ JitShape(t) /\ t.source = all.source /\ t.pending = all.pending
        /\ t.released = all.released /\ t.store = all.store /\ t.local = all.local
        /\ t.stored = all.local /\ t.materialized = all.materialized
    BY <1>5, <2>1 DEF Materialized, Holding, JitTyped, JitShape
  <2>3. Holding(t, h, R)
    BY <1>5, <2>2, HoldingSame DEF Materialized
  <2>4. \A f \in Flags : all.source[f] = FlagsLocal
    <3>1. \A f \in Flags \ A : some.source[f] = FlagsLocal
      BY <1>2, <1>4 DEF Materialized, Showing
    <3> QED BY <1>5, <3>1 DEF Materialized
  <2>5. all.local = w
    <3>1. WordTyped(all.local) /\ \A f \in Flags : all.local[f] = w[f]
      BY <1>5, <2>4 DEF Materialized, Showing, Shown
    <3> QED BY <3>1 DEF WordTyped
  <2>6. Showing(t, w)
    <3>1. t.local = w /\ t.stored = w
      BY <2>2, <2>5
    <3>2. \A f \in Flags : t.source[f] = FlagsLocal /\ FlagsLocal # Incoming /\ FlagsLocal \notin Producing(t)
      BY <2>2, <2>4 DEF FlagsLocal, Incoming, Producing
    <3>3. t.materialized = {f \in Flags : t.source[f] = FlagsLocal}
      BY <1>5, <2>2 DEF Materialized, Showing
    <3> QED BY <3>1, <3>2, <3>3 DEF Showing, Shown, Clean
  <2> QED BY <1>4, <1>5, <2>2, <2>3, <2>5, <2>6 DEF Materialized
<1>7. CASE ~some.dirty
  <2>1. t = some
    BY <1>3, <1>7
  <2>2. ASSUME NEW f \in Flags PROVE some.stored[f] = w[f]
    <3>1. some.source[f] \in {Incoming, FlagsLocal}
      <4>1. CASE f \in M
        BY <1>4, <4>1 DEF Emitted
      <4>2. CASE f \notin M
        <5>1. j.source[f] \notin Producing(j) \/ j.source[f] = FlagsLocal
          BY <1>1, <4>2 DEF Showing
        <5>2. j.source[f] \in {Incoming, FlagsLocal}
          BY <5>1, SourceKinds DEF Holding
        <5> QED BY <1>4, <5>2 DEF Materialized
      <4> QED BY <4>1, <4>2
    <3>2. CASE some.source[f] = Incoming
      BY <1>4, <3>2 DEF Materialized, Showing, Shown
    <3>3. CASE some.source[f] = FlagsLocal
      BY <1>4, <1>7, <3>3 DEF Materialized, Showing, Shown, Clean
    <3> QED BY <3>1, <3>2, <3>3
  <2>3. some.stored = w
    BY <1>4, <2>2 DEF Materialized, Showing, WordTyped
  <2> QED BY <1>4, <2>1, <2>3 DEF Materialized
<1> QED BY <1>6, <1>7

-----------------------------------------------------------------------------
(* The emitter's operations.                                                *)

\* A producer added to the pending ones.
Extended(pd, p, old, d) == pd = Append(old, d) /\ p = Len(old) + 1

LEMMA Appended ==
    ASSUME NEW pd, \E S : pd \in Seq(S), NEW d, NEW pd2, pd2 = Append(pd, d)
    PROVE  /\ \E S : pd2 \in Seq(S)
           /\ Len(pd) \in Nat /\ Len(pd2) = Len(pd) + 1
           /\ pd2[Len(pd) + 1] = d /\ \A i \in 1 .. Len(pd) : pd2[i] = pd[i]
<1>1. PICK S : pd \in Seq(S)
  OBVIOUS
<1>2. pd \in Seq(S \cup {d}) /\ d \in S \cup {d}
  BY <1>1
<1>3. pd2 \in Seq(S \cup {d})
  BY <1>2
<1> QED BY <1>1, <1>2, <1>3

\* An operation on the store alone.
WithStore(j, store) == [j EXCEPT !.store = store]
LEMMA WithStoreFields ==
    ASSUME NEW j, JitTyped(j), NEW store, NEW t, t = WithStore(j, store)
    PROVE  /\ JitTyped(t) /\ SameFlags(t, j) /\ t.released = j.released /\ t.store = store
           /\ Producing(t) = Producing(j) /\ Waiting(t) = Waiting(j)
           /\ ReleasedExact(j) => ReleasedExact(t)
<1>1. JitShape(t) /\ SameFlags(t, j) /\ t.released = j.released /\ t.store = store
  BY DEF WithStore, JitTyped, JitShape, SameFlags
<1>2. Producing(t) = Producing(j) /\ Waiting(t) = Waiting(j)
  BY <1>1 DEF Producing, Waiting, SameFlags
<1>3. \A p : Referenced(t, p) <=> Referenced(j, p)
  BY <1>1 DEF Referenced, SameFlags
<1> QED BY <1>1, <1>2, <1>3 DEF JitTyped, ReleasedExact, SameFlags

\* What a record shows does not depend on its store.
LEMMA ShowingSame ==
    ASSUME NEW j, NEW w, Showing(j, w), NEW t, SameFlags(t, j)
    PROVE  Showing(t, w)
<1>1. Producing(t) = Producing(j) /\ \A q : FlagsOf(t, q) = FlagsOf(j, q)
  BY DEF SameFlags, Producing, FlagsOf, KeptInputs
<1> QED BY <1>1 DEF Showing, SameFlags, Shown, Clean

\* A capture adds a handle, or does nothing.
Captured(reuse, w) == IF reuse THEN {w} ELSE {}
LEMMA CaptureKeeps ==
    ASSUME NEW j, JitTyped(j), NEW pd, NEW W, Handed(j.store, pd, W, held, regs),
           NEW reuse \in BOOLEAN, NEW v, reuse => v \in Selected /\ HasRoom(j.store),
           NEW t, t = CaptureInput(j, v, reuse),
           NEW w, w \notin W,
           Place(pd, w) = CapturedInput(t, v, reuse).local,
           Kept(pd, w) = CapturedInput(t, v, reuse).value
    PROVE  /\ Handed(t.store, pd, W \cup Captured(reuse, w), held, regs)
           /\ t = WithStore(j, t.store)
<1>1. CASE ~reuse
  <2>1. t = j
    BY <1>1 DEF CaptureInput
  <2>2. j = WithStore(j, j.store)
    BY DEF WithStore, JitTyped, JitShape
  <2> QED BY <1>1, <2>1, <2>2 DEF Captured
<1>2. CASE reuse
  <2>1. PICK store : store = CaptureForReuse(j.store, v, ReadValue(v))
    OBVIOUS
  <2>2. t = WithStore(j, store)
    BY <1>2, <2>1 DEF CaptureInput, WithStore
  <2>3. t.store = store
    BY <2>2, WithStoreFields
  <2>4. Place(pd, w) = store.local[v] /\ Kept(pd, w) = ValueIn(regs, v) /\ ReadValue(v) = ValueIn(regs, v)
    BY <1>2, <2>3 DEF CapturedInput, HandleInput, ReadValue, ValueIn
  <2>5. Handed(store, pd, W \cup {w}, held, regs)
    BY <1>2, <2>1, <2>4, HandedCapture
  <2> QED BY <1>2, <2>2, <2>3, <2>5 DEF Captured
<1> QED BY <1>1, <1>2

\* A register write gives up the register's known value and what was read of it.
LEMMA WriteKeeps ==
    ASSUME NEW j, JitTyped(j), NEW pd, NEW W, Handed(j.store, pd, W, held, regs),
           NEW r \in Regs, NEW t, t = WriteRegister(j, r),
           NEW g, g = [held EXCEPT ![r] = NoLocal],
           NEW R2, \A q \in Regs : q # r => R2[q] = regs[q]
    PROVE  /\ Handed(t.store, pd, W, g, R2)
           /\ t = WithStore(j, t.store)
<1>1. PICK s1 : s1 = IF held[r] = NoLocal THEN j.store ELSE Release(j.store, held[r])
  OBVIOUS
<1>2. Handed(s1, pd, W, g, regs)
  BY <1>1, HandedDrop
<1>3. DropHeld(j, r) = WithStore(j, s1)
  BY <1>1 DEF DropHeld, WithStore, JitTyped, JitShape
<1>4. PICK s2 : s2 = ForgetWhere(s1, ReadsOf(r))
  OBVIOUS
<1>5. PICK d : d = WithStore(j, s1)
  OBVIOUS
<1>6. d.store = s1
  BY <1>5, WithStoreFields
<1>7. t = [d EXCEPT !.store = s2]
  BY <1>3, <1>4, <1>5, <1>6 DEF WriteRegister, NotifyWrite
<1>8. t = WithStore(j, s2)
  BY <1>5, <1>7 DEF WithStore, JitTyped, JitShape
<1>9. t.store = s2
  BY <1>8, WithStoreFields
<1>10. g[r] = NoLocal
  BY DEF Handed
<1>11. Handed(s2, pd, W, g, R2)
  BY <1>2, <1>4, <1>10, HandedWrite
<1> QED BY <1>8, <1>9, <1>11

\* The handles of the last producer.
NewHandles(pd, p) == {w \in {p} \X InputNames : Place(pd, w) # NoLocal}

\* The flags of M come from the last producer.
Emits(t, j, M, p, pd) ==
    /\ t.source = SourceSet(j.source, M, p) /\ t.pending = pd
    /\ t.local = j.local /\ t.stored = j.stored /\ t.dirty = j.dirty
    /\ t.materialized = j.materialized \ M

\* A producer whose inputs are captured becomes the source of what it writes.
LEMMA EmitSetKeeps ==
    ASSUME NEW j, JitTyped(j), ReleasedExact(j), NEW d, d.producer \in Producers,
           NEW pd, NEW p, Extended(pd, p, j.pending, d),
           NEW V, V = Waiting(j) \cup NewHandles(pd, p),
           NEW h, NEW R, Handed(j.store, pd, V, h, R),
           NEW t, t = EmitSet(j, d)
    PROVE  Holding(t, h, R) /\ Emits(t, j, WrittenMask[d.producer], p, pd)
<1>1. /\ \E S : pd \in Seq(S)
      /\ Len(j.pending) \in Nat /\ Len(pd) = p /\ p = Len(j.pending) + 1 /\ pd[p] = d
      /\ \A i \in Producing(j) : pd[i] = j.pending[i]
  <2>1. PICK old : old = j.pending
    OBVIOUS
  <2>2. (\E S : old \in Seq(S)) /\ pd = Append(old, d) /\ p = Len(old) + 1
    BY <2>1 DEF JitTyped, Extended
  <2>3. /\ \E S : pd \in Seq(S)
        /\ Len(old) \in Nat /\ Len(pd) = Len(old) + 1
        /\ pd[Len(old) + 1] = d /\ \A i \in 1 .. Len(old) : pd[i] = old[i]
    BY <2>2, Appended
  <2> QED BY <2>1, <2>2, <2>3 DEF Producing
<1>2. PICK M : M = WrittenMask[d.producer]
  OBVIOUS
<1>3. M \in SUBSET Flags /\ M # {} /\ M = M \cup UndefMask[d.producer]
  <2>1. CASE d.producer = "logic"
    BY <1>2, <2>1 DEF WrittenMask, UndefMask, Producers, Flags
  <2>2. CASE d.producer # "logic"
    <3>1. UndefMask[d.producer] = {}
      BY <2>2 DEF UndefMask
    <3>2. "ZF" \in WrittenMask[d.producer] /\ WrittenMask[d.producer] \subseteq Flags
      BY DEF WrittenMask, Producers, Flags
    <3> QED BY <1>2, <3>1, <3>2
  <2> QED BY <2>1, <2>2
<1>4. PICK m : m = [j EXCEPT !.pending = pd]
  OBVIOUS
<1>5. PICK u : u = SetSource(m, M, p)
  OBVIOUS
<1>6. t = [u EXCEPT !.materialized = @ \ M]
  BY <1>2, <1>3, <1>4, <1>5 DEF EmitSet, Extended
<1>7. /\ JitShape(m) /\ m.source = j.source /\ m.pending = pd /\ m.released = j.released
      /\ m.store = j.store /\ m.local = j.local /\ m.stored = j.stored /\ m.dirty = j.dirty
      /\ m.materialized = j.materialized
  BY <1>4 DEF JitTyped, JitShape
<1>8. Producing(m) = Producing(j) \cup {p} /\ p \notin Producing(j)
  BY <1>1, <1>7 DEF Producing
<1>9. JitTyped(m)
  BY <1>1, <1>7, <1>8 DEF JitTyped
<1>10. Waiting(m) = Waiting(j) \cup NewHandles(pd, p)
  <2>1. p \notin m.released
    BY <1>7, <1>8 DEF JitTyped
  <2>2. ASSUME NEW w PROVE w \in Waiting(m) <=> w \in Waiting(j) \cup NewHandles(pd, p)
    <3>1. CASE w \in {p} \X InputNames
      BY <1>7, <1>8, <2>1, <3>1 DEF Waiting, NewHandles
    <3>2. CASE w \in Producing(j) \X InputNames
      <4>1. Place(pd, w) = Place(j.pending, w)
        BY <1>1, <3>2 DEF Place
      <4> QED BY <1>7, <1>8, <3>2, <4>1 DEF Waiting, NewHandles
    <3>3. CASE w \notin {p} \X InputNames /\ w \notin Producing(j) \X InputNames
      BY <1>8, <3>3 DEF Waiting, NewHandles
    <3> QED BY <3>1, <3>2, <3>3
  <2> QED BY <2>2
<1>11. JitHanded(m, h, R)
  BY <1>7, <1>10 DEF JitHanded
<1>12. \A q \in Producing(m) : q # p => (q \in m.released <=> ~Referenced(m, q))
  <2>1. \A q : Referenced(m, q) <=> Referenced(j, q)
    BY <1>7 DEF Referenced
  <2> QED BY <1>7, <1>8, <2>1 DEF ReleasedExact
<1>13. p \in Producing(m) /\ p \notin m.released
  BY <1>7, <1>8 DEF JitTyped
<1>14. /\ JitTyped(u) /\ ReleasedExact(u) /\ JitHanded(u, h, R)
       /\ u.source = SourceSet(m.source, M, p)
       /\ u.pending = m.pending /\ u.local = m.local /\ u.materialized = m.materialized
       /\ u.dirty = m.dirty /\ u.stored = m.stored
  BY <1>3, <1>5, <1>9, <1>11, <1>12, <1>13, SetSourceKeeps
<1>15. /\ JitShape(t) /\ t.source = u.source /\ t.pending = u.pending /\ t.released = u.released
       /\ t.store = u.store /\ t.local = u.local /\ t.stored = u.stored /\ t.dirty = u.dirty
       /\ t.materialized = u.materialized \ M
  BY <1>6, <1>14 DEF JitTyped, JitShape
<1>16. Holding(t, h, R)
  <2>1. Holding(u, h, R)
    BY <1>14 DEF Holding
  <2> QED BY <1>15, <2>1, HoldingSame
<1>17. Emits(t, j, M, p, pd)
  BY <1>7, <1>14, <1>15 DEF Emits
<1> QED BY <1>2, <1>16, <1>17

\* The flags a producer defines depend on the inputs it names only.
LEMMA FlagsOfInputs ==
    ASSUME NEW P \in Producers, NEW w, NEW in, NEW in2,
           \A n \in ProducerInputs[P] : in[n] = in2[n]
    PROVE  DefineFlags(P, w, in) = DefineFlags(P, w, in2)
<1>1. CASE P = "add"
  <2>1. in.left = in2.left /\ in.right = in2.right /\ in.result = in2.result
    BY <1>1 DEF ProducerInputs
  <2> QED BY <1>1, <2>1 DEF DefineFlags
<1>2. CASE P = "sub"
  <2>1. in.left = in2.left /\ in.right = in2.right /\ in.result = in2.result
    BY <1>2 DEF ProducerInputs
  <2> QED BY <1>2, <2>1 DEF DefineFlags
<1>3. CASE P = "logic"
  <2>1. in.result = in2.result
    BY <1>3 DEF ProducerInputs
  <2> QED BY <1>3, <2>1 DEF DefineFlags
<1>4. CASE P = "inc"
  <2>1. in.left = in2.left /\ in.result = in2.result
    BY <1>4 DEF ProducerInputs
  <2> QED BY <1>4, <2>1 DEF DefineFlags
<1>5. CASE P = "dec"
  <2>1. in.left = in2.left /\ in.result = in2.result
    BY <1>5 DEF ProducerInputs
  <2> QED BY <1>5, <2>1 DEF DefineFlags
<1> QED BY <1>1, <1>2, <1>3, <1>4, <1>5 DEF Producers

\* A new producer shows the word its flags are set in.
LEMMA EmitSetShows ==
    ASSUME NEW j, JitTyped(j), NEW w, Showing(j, w), NEW d, d.producer \in Producers,
           NEW in, \A n \in ProducerInputs[d.producer] : d.inputs[n].value = in[n],
           NEW pd, NEW p, Extended(pd, p, j.pending, d),
           NEW t, Emits(t, j, WrittenMask[d.producer], p, pd)
    PROVE  Showing(t, emitSetFlags(w, Descriptor(d.producer, d.width, in), Flags))
<1> DEFINE M == WrittenMask[d.producer]
           w2 == emitSetFlags(w, Descriptor(d.producer, d.width, in), Flags)
<1>0. /\ t.source = SourceSet(j.source, M, p) /\ t.pending = pd
      /\ t.local = j.local /\ t.stored = j.stored /\ t.dirty = j.dirty
      /\ t.materialized = j.materialized \ M
  BY DEF Emits
<1>1. /\ Len(j.pending) \in Nat /\ Len(t.pending) = p /\ t.pending[p] = d
      /\ p = Len(j.pending) + 1
      /\ \A i \in Producing(j) : t.pending[i] = j.pending[i]
  <2>1. PICK old : old = j.pending
    OBVIOUS
  <2>2. (\E S : old \in Seq(S)) /\ pd = Append(old, d) /\ p = Len(old) + 1
    BY <2>1 DEF JitTyped, Extended
  <2>3. /\ Len(old) \in Nat /\ Len(pd) = Len(old) + 1
        /\ pd[Len(old) + 1] = d /\ \A i \in 1 .. Len(old) : pd[i] = old[i]
    BY <2>2, Appended
  <2> QED BY <1>0, <2>1, <2>2, <2>3 DEF Producing
<1>2. p \notin Producing(j) /\ p \in Producing(t) /\ p # Incoming /\ p # FlagsLocal
  BY <1>1 DEF Producing, Incoming, FlagsLocal
<1>3. \A f \in Flags : t.source[f] = IF f \in M THEN p ELSE j.source[f]
  BY <1>0 DEF SourceSet
<1>4. \A f \in Flags : w2[f] = IF f \in M THEN DefineFlags(d.producer, d.width, in)[f] ELSE w[f]
  BY DEF emitSetFlags, Descriptor
<1>5. FlagsOf(t, p) = DefineFlags(d.producer, d.width, in)
  <2>1. KeptInputs(t, p) = [n \in InputNames |-> d.inputs[n].value]
    BY <1>1 DEF KeptInputs
  <2>2. ProducerInputs[d.producer] \subseteq InputNames
    BY DEF ProducerInputs, InputNames, Producers
  <2>3. \A n \in ProducerInputs[d.producer] : KeptInputs(t, p)[n] = in[n]
    BY <2>1, <2>2
  <2>4. DefineFlags(d.producer, d.width, KeptInputs(t, p)) = DefineFlags(d.producer, d.width, in)
    BY <2>3, FlagsOfInputs
  <2> QED BY <1>1, <2>4 DEF FlagsOf
<1>6. \A q \in Producing(j) : q \in Producing(t) /\ FlagsOf(t, q) = FlagsOf(j, q)
  BY <1>1 DEF Producing, FlagsOf, KeptInputs
<1> HIDE DEF w2, M
<1>7. Shown(t, w2)
  <2> SUFFICES ASSUME NEW f \in Flags
               PROVE  /\ t.source[f] = Incoming => t.stored[f] = w2[f]
                      /\ t.source[f] = FlagsLocal => t.local[f] = w2[f]
                      /\ t.source[f] \in Producing(t) =>
                           /\ t.pending[t.source[f]].producer \in Producers
                           /\ f \in WrittenMask[t.pending[t.source[f]].producer]
                           /\ FlagsOf(t, t.source[f])[f] = w2[f]
    BY DEF Shown
  <2>1. CASE f \in M
    <3>1. t.source[f] = p /\ w2[f] = DefineFlags(d.producer, d.width, in)[f]
      BY <1>3, <1>4, <2>1
    <3> QED BY <1>1, <1>2, <1>5, <2>1, <3>1 DEF M
  <2>2. CASE f \notin M
    <3>1. t.source[f] = j.source[f] /\ w2[f] = w[f]
      BY <1>3, <1>4, <2>2
    <3>2. /\ j.source[f] = Incoming => j.stored[f] = w[f]
          /\ j.source[f] = FlagsLocal => j.local[f] = w[f]
          /\ j.source[f] \in Producing(j) =>
               /\ j.pending[j.source[f]].producer \in Producers
               /\ f \in WrittenMask[j.pending[j.source[f]].producer]
               /\ FlagsOf(j, j.source[f])[f] = w[f]
      BY DEF Showing, Shown
    <3>3. t.source[f] \in Producing(t) => j.source[f] \in Producing(j)
      BY <1>1, <3>1, SourceKinds DEF Producing, Incoming, FlagsLocal
    <3> QED BY <1>0, <1>1, <1>6, <3>1, <3>2, <3>3
  <2> QED BY <2>1, <2>2
<1>8. t.materialized = {f \in Flags : t.source[f] = FlagsLocal}
  <2>1. j.materialized = {f \in Flags : j.source[f] = FlagsLocal}
    BY DEF Showing
  <2> QED BY <1>0, <1>2, <1>3, <2>1 DEF M
<1>9. Clean(t)
  BY <1>0, <1>2, <1>3 DEF Showing, Clean
<1> QED BY <1>0, <1>7, <1>8, <1>9 DEF Showing, w2

-----------------------------------------------------------------------------
(* The inductive invariant, and each action.                                *)

RegsTyped == regs = [r \in Regs |-> regs[r]]
PendingSpeculative(j, set) ==
    set \subseteq Flags /\ \A f \in Flags : j.source[f] \in Producing(j) => f \in set
PhaseTells ==
    /\ phase = "between" => entry = word
    /\ phase = "faulting" => jit.stored = entry
    /\ phase = "done" => jit.stored = word

FlagInv ==
    /\ RegsTyped /\ WordTyped(word)
    /\ Holding(jit, held, regs)
    /\ Showing(jit, word)
    /\ PendingSpeculative(jit, speculative)
    /\ PhaseTells

\* A producer waits with what its instruction computed its flags from.
Waits(d, op, w, in) ==
    /\ d.producer = Producer[op] /\ d.width = w
    /\ \A n \in ProducerInputs[Producer[op]] : d.inputs[n].value = Executed(op, in)[n]

LEMMA WriteHolding ==
    ASSUME NEW j, Holding(j, held, regs), NEW r \in Regs, NEW t, t = WriteRegister(j, r),
           NEW g, g = [held EXCEPT ![r] = NoLocal],
           NEW R2, \A q \in Regs : q # r => R2[q] = regs[q]
    PROVE  Holding(t, g, R2) /\ SameFlags(t, j) /\ Producing(t) = Producing(j)
<1>1. /\ Handed(t.store, j.pending, Waiting(j), g, R2)
      /\ t = WithStore(j, t.store)
  BY WriteKeeps DEF Holding, JitHanded
<1>2. /\ JitTyped(t) /\ SameFlags(t, j) /\ Producing(t) = Producing(j)
      /\ Waiting(t) = Waiting(j) /\ ReleasedExact(t)
  <2>1. PICK store : store = t.store
    OBVIOUS
  <2> QED BY <1>1, <2>1, WithStoreFields DEF Holding
<1> QED BY <1>1, <1>2 DEF Holding, JitHanded, SameFlags

\* The captured inputs of a producer are its handles.
LEMMA HandlesCaptured ==
    ASSUME NEW pd, NEW p, NEW C \in SUBSET ({p} \X InputNames),
           NEW s, NEW W, NEW h, NEW R, Handed(s, pd, W \cup C, h, R),
           \A n \in InputNames : <<p, n>> \notin C => Place(pd, <<p, n>>) = NoLocal
    PROVE  NewHandles(pd, p) = C
<1>1. \A w \in C : Place(pd, w) # NoLocal
  BY DEF Handed, Locals, NoLocal
<1> QED BY <1>1 DEF NewHandles

\* A new producer's handles are on nothing yet.
LEMMA HandedAppended ==
    ASSUME NEW j, Holding(j, held, regs), NEW d, NEW pd, NEW p, Extended(pd, p, j.pending, d)
    PROVE  /\ Handed(j.store, pd, Waiting(j), held, regs)
           /\ pd[p] = d /\ \A n : <<p, n>> \notin Waiting(j)
<1>1. PICK old : old = j.pending
  OBVIOUS
<1>2. (\E S : old \in Seq(S)) /\ pd = Append(old, d) /\ p = Len(old) + 1
  BY <1>1 DEF Holding, JitTyped, Extended
<1>3. /\ Len(old) \in Nat /\ pd[Len(old) + 1] = d
      /\ \A i \in 1 .. Len(old) : pd[i] = old[i]
  BY <1>2, Appended
<1>4. \A w \in Waiting(j) : w[1] \in 1 .. Len(old) /\ w[1] # p
  BY <1>1, <1>2, <1>3 DEF Waiting, Producing
<1>5. \A w \in Waiting(j) : Place(pd, w) = Place(old, w) /\ Kept(pd, w) = Kept(old, w)
  BY <1>3, <1>4 DEF Place, Kept
<1>6. Handed(j.store, pd, Waiting(j), held, regs)
  BY <1>1, <1>5, HandedSame DEF Holding, JitHanded
<1>7. ASSUME NEW n PROVE <<p, n>> \notin Waiting(j)
  BY <1>4
<1> QED BY <1>2, <1>3, <1>6, <1>7

\* An instruction's inputs: the ones it captures have handles, and all of them
\* have the values it computes its flags from.
LEMMA AluKeeps ==
    ASSUME FlagInv, NEW op \in Instructions, NEW w \in Widths, NEW dst \in Regs, NEW src \in Regs,
           NEW reuse \in BOOLEAN, Alu(op, w, dst, src, reuse)
    PROVE  /\ FlagInv'
           /\ \E d : /\ jit'.pending = Append(jit.pending, d)
                    /\ Waits(d, op, w, Operands(op, ReadValue(<<dst, w>>), ReadValue(<<src, w>>)))
<1> DEFINE v == <<dst, w>>
           u == <<src, w>>
           in == Operands(op, ReadValue(v), ReadValue(u))
           result == Result(op, in[1], in[2])
           reuseLeft == reuse /\ v \in Selected
           reuseRight == reuse /\ u \in Selected /\ op \notin Unary
           j1 == CaptureInput(jit, v, reuseLeft)
           j2 == CaptureInput(j1, u, reuseRight)
           dstInput == CapturedInput(j1, v, reuseLeft)
           needed == ProducerInputs[Producer[op]]
           left == IF op = "neg" THEN OwnInput(0) ELSE dstInput
           right == IF op = "neg" THEN dstInput
                    ELSE IF op \in Unary THEN OwnInput(1) ELSE CapturedInput(j2, u, reuseRight)
           inputs == [left |-> IF "left" \in needed THEN left ELSE NoInput,
                      right |-> IF "right" \in needed THEN right ELSE NoInput,
                      result |-> OwnInput(result)]
           d == Descriptor(Producer[op], w, inputs)
           jx == IF Producer[op] = "logic" THEN jit ELSE j2
           j3 == EmitSet(jx, d)
           values == [left |-> in[1], right |-> in[2], result |-> result]
           pd == Append(jit.pending, d)
           p == Len(jit.pending) + 1
           W == Waiting(jit)
<1>1. /\ InInstruction
      /\ reuse => HasRoom(jit.store) /\ HasRoom(j1.store)
      /\ word' = emitSetFlags(word, Descriptor(Producer[op], w, values), Flags)
      /\ speculative' = speculative \cup WrittenMask[Producer[op]] \cup UndefMask[Producer[op]]
      /\ IF op \in {"cmp", "test"}
         THEN regs' = regs /\ held' = held /\ jit' = j3
         ELSE /\ regs' = [regs EXCEPT ![dst] = Writes(w, @, result)]
              /\ held' = [held EXCEPT ![dst] = NoLocal]
              /\ jit' = WriteRegister(j3, dst)
      /\ phase' = phase /\ entry' = entry
  BY DEF Alu
<1>2. Producer[op] \in Producers
  BY DEF Instructions, Producer, Producers
<1>3. /\ d.producer = Producer[op] /\ d.width = w /\ d.inputs = inputs
      /\ inputs["left"] = IF "left" \in needed THEN left ELSE NoInput
      /\ inputs["right"] = IF "right" \in needed THEN right ELSE NoInput
      /\ inputs["result"] = OwnInput(result)
  BY DEF Descriptor
<1>4. /\ reuseLeft \in BOOLEAN /\ (reuseLeft => v \in Selected /\ reuse)
      /\ reuseRight \in BOOLEAN /\ (reuseRight => u \in Selected /\ reuse /\ op \notin Unary)
  OBVIOUS
<1>5. dstInput.value = ReadValue(v) /\ CapturedInput(j2, u, reuseRight).value = ReadValue(u)
  BY DEF CapturedInput, HandleInput, OwnInput
<1>6. ~reuseLeft => dstInput.local = NoLocal
  BY DEF CapturedInput, OwnInput
<1>7. ~reuseRight => CapturedInput(j2, u, reuseRight).local = NoLocal
  BY DEF CapturedInput, OwnInput
<1>8. \A n : OwnInput(n).local = NoLocal /\ OwnInput(n).value = n
  BY DEF OwnInput
<1>10. /\ values["left"] = in[1] /\ values["right"] = in[2] /\ values["result"] = result
       /\ in = IF op = "neg" THEN <<0, ReadValue(v)>>
               ELSE IF op \in Unary THEN <<ReadValue(v), 1>> ELSE <<ReadValue(v), ReadValue(u)>>
  BY DEF Operands
<1>11. j1 = CaptureInput(jit, v, reuseLeft) /\ j2 = CaptureInput(j1, u, reuseRight)
  OBVIOUS
<1>12. /\ dstInput = CapturedInput(j1, v, reuseLeft)
       /\ left = IF op = "neg" THEN OwnInput(0) ELSE dstInput
       /\ right = IF op = "neg" THEN dstInput
                  ELSE IF op \in Unary THEN OwnInput(1) ELSE CapturedInput(j2, u, reuseRight)
       /\ needed = ProducerInputs[Producer[op]]
       /\ jx = (IF Producer[op] = "logic" THEN jit ELSE j2)
       /\ j3 = EmitSet(jx, d)
       /\ Extended(pd, p, jit.pending, d) /\ p = Len(jit.pending) + 1 /\ W = Waiting(jit)
  BY DEF Extended
<1>13. /\ Producer[op] = "logic" => needed = {"result"}
       /\ op \in {"inc", "dec"} => needed = {"left", "result"} /\ op \in Unary /\ op # "neg"
       /\ op = "neg" => needed = {"left", "right", "result"} /\ op \in Unary
       /\ op \in {"add", "sub", "cmp"} => needed = {"left", "right", "result"} /\ op \notin Unary /\ op # "neg"
       /\ Producer[op] = "logic" \/ op \in {"inc", "dec"} \/ op = "neg" \/ op \in {"add", "sub", "cmp"}
       /\ Producer[op] # "logic" <=> op \in {"inc", "dec", "neg", "add", "sub", "cmp"}
  BY DEF Instructions, Producer, ProducerInputs, Unary
<1> HIDE DEF v, u, in, result, reuseLeft, reuseRight, j1, j2, dstInput, needed, left, right, inputs,
             d, jx, j3, values, pd, p, W
<1>14. /\ JitTyped(jit) /\ ReleasedExact(jit) /\ Showing(jit, word) /\ Holding(jit, held, regs)
       /\ Waiting(jit) = W
  BY <1>12 DEF FlagInv, Holding
<1>9. /\ Handed(jit.store, pd, W, held, regs)
      /\ pd[p] = d /\ \A n : <<p, n>> \notin W
  <2>1. Extended(pd, p, jit.pending, d) /\ W = Waiting(jit)
    BY <1>12
  <2>2. Holding(jit, held, regs)
    BY <1>14
  <2>3. /\ Handed(jit.store, pd, Waiting(jit), held, regs)
        /\ pd[p] = d /\ \A n : <<p, n>> \notin Waiting(jit)
    BY <2>1, <2>2, HandedAppended
  <2> QED BY <2>1, <2>3
<1>15. /\ Place(pd, <<p, "left">>) = inputs["left"].local
       /\ Kept(pd, <<p, "left">>) = inputs["left"].value
       /\ Place(pd, <<p, "right">>) = inputs["right"].local
       /\ Kept(pd, <<p, "right">>) = inputs["right"].value
       /\ Place(pd, <<p, "result">>) = NoLocal
  BY <1>3, <1>8, <1>9 DEF Place, Kept
<1>16. \A n \in needed : d.inputs[n].value = values[n]
  <2>1. result = values["result"] /\ inputs["result"].value = result
    BY <1>3, <1>8, <1>10
  <2>2. "left" \in needed => inputs["left"].value = values["left"]
    BY <1>3, <1>5, <1>8, <1>10, <1>12, <1>13
  <2>3. "right" \in needed => inputs["right"].value = values["right"]
    BY <1>3, <1>5, <1>8, <1>10, <1>12, <1>13
  <2>4. needed \subseteq {"left", "right", "result"}
    BY <1>13
  <2> QED BY <1>3, <2>1, <2>2, <2>3, <2>4
<1>17. NoInput.local = NoLocal
  BY <1>8 DEF NoInput
<1>18. /\ Handed(jx.store, pd, W \cup NewHandles(pd, p), held, regs)
       /\ jx = WithStore(jit, jx.store)
  <2>0. jit = WithStore(jit, jit.store)
    BY <1>14 DEF WithStore, JitTyped, JitShape
  <2>1. CASE Producer[op] = "logic"
    <3>1. \A n \in InputNames : Place(pd, <<p, n>>) = NoLocal
      BY <1>3, <1>13, <1>15, <1>17, <2>1 DEF InputNames
    <3>2. NewHandles(pd, p) = {}
      BY <3>1 DEF NewHandles
    <3>3. jx = jit /\ W \cup {} = W
      BY <1>12, <2>1
    <3> QED BY <1>9, <2>0, <3>2, <3>3
  <2>2. CASE Producer[op] # "logic"
    <3> DEFINE n1 == IF op = "neg" THEN "right" ELSE "left"
               w1 == <<p, n1>>
               w2 == <<p, "right">>
               C1 == Captured(reuseLeft, w1)
               C2 == Captured(reuseRight, w2)
    <3>1. jx = j2
      BY <1>12, <2>2
    <3>2. Place(pd, w1) = dstInput.local /\ Kept(pd, w1) = dstInput.value
      BY <1>3, <1>12, <1>13, <1>15, <2>2
    <3>3. w1 \notin W /\ w2 \notin W /\ (reuseRight => w1 # w2)
      <4>1. reuseRight => op # "neg"
        BY <1>4 DEF Unary
      <4> QED BY <1>9, <4>1
    <3> HIDE DEF n1, w1, w2
    <3>4. reuse => HasRoom(jit.store) /\ HasRoom(j1.store)
      BY <1>1
    <3>5. /\ Handed(j1.store, pd, W \cup C1, held, regs)
          /\ j1 = WithStore(jit, j1.store)
      <4>1. /\ JitTyped(jit) /\ Handed(jit.store, pd, W, held, regs) /\ w1 \notin W
            /\ reuseLeft \in BOOLEAN /\ (reuseLeft => v \in Selected /\ HasRoom(jit.store))
            /\ j1 = CaptureInput(jit, v, reuseLeft)
        BY <1>4, <1>9, <1>11, <1>14, <3>3, <3>4
      <4>2. /\ Place(pd, w1) = CapturedInput(j1, v, reuseLeft).local
            /\ Kept(pd, w1) = CapturedInput(j1, v, reuseLeft).value
        BY <1>12, <3>2
      <4> QED BY <4>1, <4>2, CaptureKeeps
    <3>6. /\ JitTyped(j1)
      <4>1. PICK store : store = j1.store
        OBVIOUS
      <4> QED BY <1>14, <3>5, <4>1, WithStoreFields
    <3>7. CASE op \in Unary
      <4>1. j2 = j1 /\ ~reuseRight
        BY <1>4, <1>11, <3>7 DEF CaptureInput
      <4>2. C1 \in SUBSET ({p} \X InputNames)
        BY DEF Captured, w1, n1, InputNames
      <4>3. ASSUME NEW n \in InputNames, <<p, n>> \notin C1 PROVE Place(pd, <<p, n>>) = NoLocal
        <5>1. CASE n = "result"
          BY <1>15, <5>1
        <5>2. CASE n = n1
          <6>1. ~reuseLeft
            BY <4>3, <5>2 DEF Captured, w1
          <6> QED BY <1>6, <3>2, <5>2, <6>1 DEF w1
        <5>3. CASE n # n1 /\ n # "result"
          <6>1. (op = "neg" /\ n = "left") \/ (op \in {"inc", "dec"} /\ n = "right")
            BY <1>13, <2>2, <3>7, <5>3 DEF n1, InputNames, Unary
          <6>2. CASE op = "neg" /\ n = "left"
            BY <1>3, <1>8, <1>12, <1>13, <1>15, <6>2
          <6>3. CASE op \in {"inc", "dec"} /\ n = "right"
            BY <1>3, <1>13, <1>15, <1>17, <6>3
          <6> QED BY <6>1, <6>2, <6>3
        <5> QED BY <5>1, <5>2, <5>3
      <4>4. NewHandles(pd, p) = C1
        <5>1. Handed(j1.store, pd, W \cup C1, held, regs)
          BY <3>5
        <5>2. PICK C : C = C1
          OBVIOUS
        <5>3. C \in SUBSET ({p} \X InputNames) /\ Handed(j1.store, pd, W \cup C, held, regs)
          BY <4>2, <5>1, <5>2
        <5>4. \A n \in InputNames : <<p, n>> \notin C => Place(pd, <<p, n>>) = NoLocal
          BY <4>3, <5>2
        <5>5. NewHandles(pd, p) = C
          <6>1. \A x \in C : Place(pd, x) # NoLocal
            BY <5>3 DEF Handed, Locals, NoLocal
          <6> QED BY <5>3, <5>4, <6>1 DEF NewHandles
        <5> QED BY <5>2, <5>5
      <4> QED BY <3>1, <3>5, <4>1, <4>4
    <3>8. CASE op \notin Unary
      <4>1. op \in {"add", "sub", "cmp"}
        BY <1>13, <2>2, <3>8
      <4>2. /\ Place(pd, w2) = CapturedInput(j2, u, reuseRight).local
            /\ Kept(pd, w2) = CapturedInput(j2, u, reuseRight).value
        BY <1>3, <1>12, <1>13, <1>15, <3>8, <4>1 DEF w2
      <4>3. w1 # w2
        BY <4>1 DEF w1, w2, n1
      <4>4. w2 \notin W \cup C1
        BY <3>3, <4>3 DEF Captured
      <4>5. /\ Handed(j2.store, pd, (W \cup C1) \cup C2, held, regs)
            /\ j2 = WithStore(j1, j2.store)
        <5>1. /\ JitTyped(j1) /\ Handed(j1.store, pd, W \cup C1, held, regs) /\ w2 \notin W \cup C1
              /\ reuseRight \in BOOLEAN /\ (reuseRight => u \in Selected /\ HasRoom(j1.store))
              /\ j2 = CaptureInput(j1, u, reuseRight)
          BY <1>4, <1>11, <3>4, <3>5, <3>6, <4>4
        <5>2. PICK V : V = W \cup C1
          OBVIOUS
        <5>3. /\ Handed(j1.store, pd, V, held, regs) /\ w2 \notin V
              /\ JitTyped(j1) /\ reuseRight \in BOOLEAN
              /\ (reuseRight => u \in Selected /\ HasRoom(j1.store))
              /\ j2 = CaptureInput(j1, u, reuseRight)
          BY <5>1, <5>2
        <5>4. /\ Handed(j2.store, pd, V \cup Captured(reuseRight, w2), held, regs)
              /\ j2 = WithStore(j1, j2.store)
          BY <4>2, <5>3, CaptureKeeps
        <5> QED BY <5>2, <5>4
      <4>6. j2 = WithStore(jit, j2.store)
        <5>1. PICK a, b : a = j1.store /\ b = j2.store
          OBVIOUS
        <5>2. j1 = WithStore(jit, a) /\ j2 = WithStore(j1, b)
          BY <3>5, <4>5, <5>1
        <5> QED BY <1>14, <5>1, <5>2 DEF WithStore, JitTyped, JitShape
      <4>7. C1 \cup C2 \in SUBSET ({p} \X InputNames)
        BY DEF Captured, w1, w2, n1, InputNames
      <4>8. (W \cup C1) \cup C2 = W \cup (C1 \cup C2)
        OBVIOUS
      <4>9. ASSUME NEW n \in InputNames, <<p, n>> \notin C1 \cup C2
            PROVE  Place(pd, <<p, n>>) = NoLocal
        <5>1. n1 = "left"
          BY <4>1 DEF n1
        <5>2. CASE n = "result"
          BY <1>15, <5>2
        <5>3. CASE n = "left"
          <6>1. ~reuseLeft
            BY <4>9, <5>1, <5>3 DEF Captured, w1
          <6> QED BY <1>6, <3>2, <5>1, <5>3, <6>1 DEF w1
        <5>4. CASE n = "right"
          <6>1. ~reuseRight
            BY <4>9, <5>4 DEF Captured, w2
          <6> QED BY <1>7, <4>2, <5>4, <6>1 DEF w2
        <5> QED BY <5>2, <5>3, <5>4 DEF InputNames
      <4> HIDE DEF C1, C2
      <4>10. NewHandles(pd, p) = C1 \cup C2
        BY <4>5, <4>7, <4>8, <4>9, HandlesCaptured
      <4> QED BY <3>1, <4>5, <4>6, <4>8, <4>10
    <3> QED BY <3>7, <3>8
  <2> QED BY <2>1, <2>2
<1>19. /\ JitTyped(jx) /\ ReleasedExact(jx) /\ Showing(jx, word)
       /\ jx.pending = jit.pending /\ jx.stored = jit.stored /\ jx.source = jit.source
       /\ Waiting(jx) = W /\ Producing(jx) = Producing(jit)
  <2>1. PICK store : store = jx.store
    OBVIOUS
  <2>2. jx = WithStore(jit, store)
    BY <1>18, <2>1
  <2>3. /\ JitTyped(jx) /\ SameFlags(jx, jit) /\ ReleasedExact(jx)
        /\ Producing(jx) = Producing(jit) /\ Waiting(jx) = Waiting(jit)
    BY <1>14, <2>2, WithStoreFields
  <2>4. Showing(jx, word)
    BY <1>14, <2>3, ShowingSame
  <2> QED BY <1>14, <2>3, <2>4 DEF SameFlags
<1>20. /\ Holding(j3, held, regs) /\ Emits(j3, jx, WrittenMask[d.producer], p, pd)
       /\ j3.source = SourceSet(jit.source, WrittenMask[Producer[op]], p)
       /\ j3.pending = pd /\ j3.local = jx.local /\ j3.stored = jit.stored /\ j3.dirty = jx.dirty
       /\ j3.materialized = jx.materialized \ WrittenMask[Producer[op]]
  <2>1. Extended(pd, p, jx.pending, d) /\ j3 = EmitSet(jx, d)
        /\ d.producer \in Producers /\ d.producer = Producer[op]
    BY <1>2, <1>3, <1>12, <1>19
  <2>2. Handed(jx.store, pd, Waiting(jx) \cup NewHandles(pd, p), held, regs)
    BY <1>18, <1>19
  <2>3. Holding(j3, held, regs) /\ Emits(j3, jx, WrittenMask[d.producer], p, pd)
    <3>1. /\ JitTyped(jx) /\ ReleasedExact(jx) /\ d.producer \in Producers
          /\ Extended(pd, p, jx.pending, d) /\ j3 = EmitSet(jx, d)
      BY <1>19, <2>1
    <3>2. PICK V : V = Waiting(jx) \cup NewHandles(pd, p)
      OBVIOUS
    <3>3. Handed(jx.store, pd, V, held, regs)
      BY <2>2, <3>2
    <3> QED BY <3>1, <3>2, <3>3, EmitSetKeeps, Zenon
  <2> QED BY <1>19, <2>1, <2>3 DEF Emits
<1>21. Showing(j3, word')
  <2>1. /\ d.producer \in Producers /\ d.producer = Producer[op] /\ d.width = w
        /\ \A n \in ProducerInputs[d.producer] : d.inputs[n].value = values[n]
    BY <1>2, <1>3, <1>12, <1>16
  <2>2. Extended(pd, p, jx.pending, d) /\ Emits(j3, jx, WrittenMask[d.producer], p, pd)
    BY <1>12, <1>19, <1>20, <2>1
  <2>3. Showing(j3, emitSetFlags(word, Descriptor(d.producer, d.width, values), Flags))
    BY <1>19, <2>1, <2>2, EmitSetShows
  <2> QED BY <1>1, <2>1, <2>3
<1>22. PendingSpeculative(j3, speculative')
  <2>1. WrittenMask[Producer[op]] \subseteq Flags /\ UndefMask[Producer[op]] \subseteq Flags
    BY <1>2 DEF WrittenMask, UndefMask, Producers, Flags
  <2>2. \A i \in Producing(j3) : i = p \/ i \in Producing(jit)
    <3>1. (\E S : jit.pending \in Seq(S)) /\ j3.pending = Append(jit.pending, d)
      BY <1>12, <1>14, <1>20 DEF JitTyped, Extended
    <3>2. PICK old : old = jit.pending
      OBVIOUS
    <3>3. Len(old) \in Nat /\ Len(j3.pending) = Len(old) + 1
      BY <3>1, <3>2, Appended
    <3> QED BY <1>12, <3>2, <3>3 DEF Producing
  <2>3. ASSUME NEW f \in Flags, j3.source[f] \in Producing(j3) PROVE f \in speculative'
    <3>1. CASE f \in WrittenMask[Producer[op]]
      BY <1>1, <3>1
    <3>2. CASE f \notin WrittenMask[Producer[op]]
      <4>1. j3.source[f] = jit.source[f]
        BY <1>20, <3>2 DEF SourceSet
      <4>2. jit.source[f] \in Producing(jit)
        <5>1. jit.source[f] \in {Incoming, FlagsLocal} \cup Producing(jit)
          BY <1>14, SourceKinds
        <5>2. jit.source[f] # Incoming /\ jit.source[f] # FlagsLocal
          BY <2>3, <4>1 DEF Producing, Incoming, FlagsLocal
        <5> QED BY <5>1, <5>2
      <4> QED BY <1>1, <4>2 DEF FlagInv, PendingSpeculative
    <3> QED BY <3>1, <3>2
  <2>4. speculative' \subseteq Flags
    BY <1>1, <2>1 DEF FlagInv, PendingSpeculative
  <2> QED BY <2>3, <2>4 DEF PendingSpeculative
<1>23. WordTyped(word')
  <2>1. PICK e : e = Descriptor(Producer[op], w, values)
    OBVIOUS
  <2>2. e.producer \in Producers /\ word' = emitSetFlags(word, e, Flags)
    BY <1>1, <1>2, <2>1 DEF Descriptor
  <2> QED BY <2>2, SetFlagsTyped DEF FlagInv
<1>24. /\ Holding(jit, held, regs)' /\ SameFlags(jit', j3) /\ Producing(jit') = Producing(j3)
       /\ RegsTyped'
  <2>1. CASE op \in {"cmp", "test"}
    BY <1>1, <1>20, <2>1 DEF SameFlags, FlagInv, RegsTyped
  <2>2. CASE op \notin {"cmp", "test"}
    <3>1. \A q \in Regs : q # dst => regs'[q] = regs[q]
      BY <1>1, <2>2 DEF FlagInv, RegsTyped
    <3>2. Holding(jit', held', regs') /\ SameFlags(jit', j3) /\ Producing(jit') = Producing(j3)
      BY <1>1, <1>20, <2>2, <3>1, WriteHolding
    <3>3. RegsTyped'
      BY <1>1, <2>2 DEF FlagInv, RegsTyped
    <3> QED BY <3>2, <3>3
  <2> QED BY <2>1, <2>2
<1>25. Showing(jit', word')
  BY <1>21, <1>24, ShowingSame
<1>26. PendingSpeculative(jit', speculative')
  BY <1>22, <1>24 DEF PendingSpeculative, SameFlags
<1>27. PhaseTells'
  BY <1>1, <1>20, <1>24 DEF FlagInv, PhaseTells, InInstruction, SameFlags
<1>28. jit'.pending = Append(jit.pending, d)
  BY <1>12, <1>20, <1>24 DEF SameFlags, Extended
<1>29. Waits(d, op, w, in)
  <2>1. values = Executed(op, in)
    BY DEF values, result, Executed
  <2> QED BY <1>3, <1>12, <1>16, <2>1 DEF Waits
<1>30. in = Operands(op, ReadValue(<<dst, w>>), ReadValue(<<src, w>>))
  BY DEF in, v, u
<1>31. FlagInv'
  BY <1>23, <1>24, <1>25, <1>26, <1>27 DEF FlagInv
<1> QED BY <1>28, <1>29, <1>30, <1>31

LEMMA UseValueKeeps ==
    ASSUME FlagInv, NEW v \in Selected, UseValue(v)
    PROVE  FlagInv' /\ jit'.pending = jit.pending
<1>1. PICK store : store = EmitForUse(jit.store, v, ReadValue(v))
  OBVIOUS
<1>2. /\ jit' = WithStore(jit, store) /\ HasRoom(jit.store) /\ ReadValue(v) = ValueIn(regs, v)
      /\ UNCHANGED <<held, regs, word, speculative, entry, phase>>
  BY <1>1 DEF UseValue, WithStore, ReadValue, ValueIn
<1>3. JitTyped(jit) /\ ReleasedExact(jit) /\ JitHanded(jit, held, regs) /\ Showing(jit, word)
  BY DEF FlagInv, Holding
<1>4. Handed(store, jit.pending, Waiting(jit), held, regs)
  BY <1>1, <1>2, <1>3, HandedEmit DEF JitHanded
<1>5. /\ JitTyped(jit') /\ SameFlags(jit', jit) /\ jit'.store = store
      /\ Producing(jit') = Producing(jit) /\ Waiting(jit') = Waiting(jit) /\ ReleasedExact(jit')
  BY <1>2, <1>3, WithStoreFields
<1>6. Holding(jit', held, regs)
  BY <1>4, <1>5 DEF Holding, JitHanded, SameFlags
<1>7. Showing(jit', word)
  BY <1>3, <1>5, ShowingSame
<1> QED BY <1>2, <1>5, <1>6, <1>7 DEF FlagInv, RegsTyped, PendingSpeculative, PhaseTells, SameFlags

LEMMA ConditionKeeps ==
    ASSUME FlagInv, NEW cc \in ConditionCodes, Condition(cc)
    PROVE  FlagInv' /\ jit'.pending = jit.pending
<1>1. /\ jit' = EmitCondition(jit, cc) /\ phase \in {"in", "faulting"}
      /\ UNCHANGED <<held, regs, word, speculative, entry, phase>>
  BY DEF Condition, InInstruction
<1>2. CASE ConditionSource(jit, cc) # {}
  <2>1. jit' = jit
    BY <1>1, <1>2 DEF EmitCondition
  <2> QED BY <1>1, <2>1 DEF FlagInv, RegsTyped, PhaseTells
<1>3. CASE ConditionSource(jit, cc) = {}
  <2>1. jit' = EmitMaterialize(jit, ConditionReads(cc))
    BY <1>1, <1>3 DEF EmitCondition
  <2>2. ConditionReads(cc) \in SUBSET Flags
    BY DEF ConditionReads, ConditionCodes, Flags
  <2>3. Materialized(jit', jit, held, regs, word)
    BY <2>1, <2>2, EmitMaterializeKeeps DEF FlagInv
  <2>4. Producing(jit') = Producing(jit) /\ FlagsLocal \notin Producing(jit)
    BY <2>3 DEF Materialized, Producing, FlagsLocal
  <2> QED BY <1>1, <2>3, <2>4 DEF FlagInv, RegsTyped, PendingSpeculative, PhaseTells, Materialized
<1> QED BY <1>2, <1>3

\* A boundary over the speculative flags brings the word in memory up to date.
LEMMA BoundaryKeeps ==
    ASSUME FlagInv, NEW t, t = EmitBoundary(jit, speculative)
    PROVE  /\ Holding(t, held, regs) /\ Showing(t, word) /\ t.stored = word
           /\ PendingSpeculative(t, speculative) /\ t.pending = jit.pending
<1>1. /\ Holding(t, held, regs) /\ Showing(t, word) /\ t.stored = word /\ t.pending = jit.pending
      /\ \A f \in Flags : t.source[f] = jit.source[f] \/ t.source[f] = FlagsLocal
  BY EmitBoundaryKeeps DEF FlagInv, PendingSpeculative
<1>2. Producing(t) = Producing(jit) /\ FlagsLocal \notin Producing(jit)
  BY <1>1 DEF Producing, FlagsLocal
<1> QED BY <1>1, <1>2 DEF FlagInv, PendingSpeculative

LEMMA BeginKeeps ==
    ASSUME FlagInv, NEW faults \in BOOLEAN, BeginInstruction(faults)
    PROVE  FlagInv' /\ jit'.pending = jit.pending
<1>1. /\ phase = "between" /\ phase' = (IF faults THEN "faulting" ELSE "in")
      /\ jit' = (IF faults THEN EmitBoundary(jit, speculative) ELSE jit)
      /\ UNCHANGED <<held, regs, word, speculative, entry>>
  BY DEF BeginInstruction
<1>2. CASE faults
  <2>1. jit' = EmitBoundary(jit, speculative) /\ phase' = "faulting"
    BY <1>1, <1>2
  <2> QED BY <1>1, <2>1, BoundaryKeeps DEF FlagInv, RegsTyped, PhaseTells
<1>3. CASE ~faults
  BY <1>1, <1>3 DEF FlagInv, RegsTyped, PhaseTells
<1> QED BY <1>2, <1>3

LEMMA EndKeeps ==
    ASSUME FlagInv, EndInstruction
    PROVE  FlagInv'
BY DEF EndInstruction, FlagInv, RegsTyped, PhaseTells

LEMMA ExitKeeps ==
    ASSUME FlagInv, ExitBlock
    PROVE  FlagInv' /\ jit'.pending = jit.pending
<1>1. /\ phase' = "done" /\ jit' = EmitBoundary(jit, speculative)
      /\ UNCHANGED <<held, regs, word, speculative, entry>>
  BY DEF ExitBlock
<1> QED BY <1>1, BoundaryKeeps DEF FlagInv, RegsTyped, PhaseTells

\* The handle of a materialized register: first one more producer's, then the
\* register's own.
LEMMA MaterializeRegisterKeeps ==
    ASSUME FlagInv, NEW r \in Regs, NEW v \in Selected, MaterializeRegister(r, v)
    PROVE  FlagInv' /\ jit'.pending = jit.pending
<1>1. PICK store, l : store = CaptureForReuse(jit.store, v, ReadValue(v)) /\ l = store.local[v]
  OBVIOUS
<1>2. PICK captured : captured = WithStore(jit, store)
  OBVIOUS
<1>3. JitTyped(jit) /\ ReleasedExact(jit) /\ Showing(jit, word) /\ Holding(jit, held, regs)
  BY DEF FlagInv, Holding
<1>4. /\ JitTyped(captured) /\ SameFlags(captured, jit) /\ captured.store = store
      /\ Producing(captured) = Producing(jit) /\ Waiting(captured) = Waiting(jit)
      /\ ReleasedExact(captured)
  BY <1>2, <1>3, WithStoreFields
<1>5. /\ HasRoom(jit.store)
      /\ regs' = [regs EXCEPT ![r] = ReadValue(v)]
      /\ held' = [held EXCEPT ![r] = l]
      /\ jit' = WriteRegister(captured, r)
      /\ UNCHANGED <<word, speculative, entry, phase>> /\ phase \in {"in", "faulting"}
  <2>1. CaptureInput(jit, v, TRUE) = captured
    BY <1>1, <1>2 DEF CaptureInput, WithStore
  <2> QED BY <1>1, <1>4, <2>1 DEF MaterializeRegister, InInstruction
<1> DEFINE in == HandleInput(l, ReadValue(v))
           d == Descriptor("add", 8, [left |-> in])
           p == Len(jit.pending) + 1
           w == <<p, "left">>
           W == Waiting(jit)
<1>6. PICK pd : Extended(pd, p, jit.pending, d)
  BY DEF Extended
<1>7. Handed(jit.store, pd, W, held, regs) /\ pd[p] = d /\ w \notin W
  <2>1. PICK e, q : e = d /\ q = p
    OBVIOUS
  <2>2. Extended(pd, q, jit.pending, e)
    BY <1>6, <2>1
  <2>3. Handed(jit.store, pd, Waiting(jit), held, regs) /\ pd[q] = e /\ \A n : <<q, n>> \notin Waiting(jit)
    <3>1. Holding(jit, held, regs)
      BY <1>3
    <3>2. Handed(jit.store, pd, Waiting(jit), held, regs)
      BY <2>2, <3>1, HandedAppended, Zenon
    <3>3. pd[q] = e
      <4>1. PICK old : old = jit.pending
        OBVIOUS
      <4>2. (\E S : old \in Seq(S)) /\ pd = Append(old, e) /\ q = Len(old) + 1
        BY <2>2, <3>1, <4>1 DEF Holding, JitTyped, Extended
      <4> QED BY <4>2, Appended
    <3>4. \A n : <<q, n>> \notin Waiting(jit)
      BY <2>2, <3>1, HandedAppended, Zenon
    <3> QED BY <3>2, <3>3, <3>4
  <2> QED BY <2>1, <2>3
<1>8. Place(pd, w) = l /\ Kept(pd, w) = ReadValue(v)
  BY <1>7 DEF Place, Kept, Descriptor, HandleInput
<1>9. \A x \in W : Place(pd, x) = Place(jit.pending, x) /\ Kept(pd, x) = Kept(jit.pending, x)
  <2>1. PICK old : old = jit.pending
    OBVIOUS
  <2>2. (\E S : old \in Seq(S)) /\ pd = Append(old, d)
    BY <1>3, <1>6, <2>1 DEF JitTyped, Extended
  <2>3. \A i \in 1 .. Len(old) : pd[i] = old[i]
    BY <2>2, Appended
  <2>4. \A x \in W : x[1] \in 1 .. Len(old)
    BY <2>1 DEF Waiting, Producing
  <2> QED BY <2>1, <2>3, <2>4 DEF Place, Kept
<1> HIDE DEF in, d, p, w, W
<1>10. ReadValue(v) = ValueIn(regs, v)
  BY DEF ReadValue, ValueIn
<1>11. Handed(store, pd, W \cup {w}, held, regs)
  BY <1>1, <1>5, <1>7, <1>8, <1>10, HandedCapture
<1>12. PICK V : V = W \cup {w}
  OBVIOUS
<1>13. PICK g : g = [held EXCEPT ![r] = NoLocal]
  OBVIOUS
<1>14. \A q \in Regs : q # r => regs'[q] = regs[q]
  BY <1>5 DEF FlagInv, RegsTyped
<1>15. Handed(jit'.store, pd, V, g, regs') /\ jit' = WithStore(captured, jit'.store)
  <2>1. Handed(captured.store, pd, V, held, regs)
    BY <1>4, <1>11, <1>12
  <2> QED BY <1>4, <1>5, <1>13, <1>14, <2>1, WriteKeeps
<1>16. held \in [Regs -> Locals \cup {NoLocal}]
  BY <1>7 DEF Handed
<1>17. held' = [g EXCEPT ![r] = Place(pd, w)] /\ g[r] = NoLocal /\ w \in V /\ V \ {w} = W
  BY <1>5, <1>7, <1>8, <1>12, <1>13, <1>16
<1>18. regs'[r] = Kept(pd, w)
  BY <1>5, <1>8 DEF FlagInv, RegsTyped
<1>19. Handed(jit'.store, pd, W, held', regs')
  <2>1. Handed(jit'.store, pd, V \ {w}, held', regs')
    BY <1>15, <1>17, <1>18, HandedMove
  <2> QED BY <1>17, <2>1
<1>20. Handed(jit'.store, jit.pending, W, held', regs')
  BY <1>9, <1>19, HandedSame
<1>21. /\ JitTyped(jit') /\ SameFlags(jit', captured)
       /\ Producing(jit') = Producing(captured) /\ Waiting(jit') = Waiting(captured)
       /\ ReleasedExact(jit')
  <2>1. PICK s : s = jit'.store
    OBVIOUS
  <2> QED BY <1>4, <1>15, <2>1, WithStoreFields
<1>22. SameFlags(jit', jit)
  BY <1>4, <1>21 DEF SameFlags
<1>23. Holding(jit', held', regs')
  BY <1>4, <1>20, <1>21, <1>22 DEF Holding, JitHanded, SameFlags, W
<1>24. Showing(jit', word)
  BY <1>3, <1>22, ShowingSame
<1>25. RegsTyped'
  BY <1>5 DEF FlagInv, RegsTyped
<1> QED BY <1>4, <1>5, <1>21, <1>22, <1>23, <1>24, <1>25
        DEF FlagInv, PendingSpeculative, PhaseTells, SameFlags

LEMMA InitHolds == Init => FlagInv
<1> SUFFICES ASSUME Init PROVE FlagInv
  OBVIOUS
<1>1. /\ word \in Starting /\ entry = word /\ regs \in Starts /\ phase = "between"
      /\ held = [r \in Regs |-> NoLocal] /\ speculative = {}
      /\ jit = [source |-> [f \in Flags |-> Incoming], pending |-> <<>>, released |-> {},
                local |-> [f \in Flags |-> FALSE], materialized |-> {}, dirty |-> FALSE,
                stored |-> word, store |-> EmptyStore]
  BY DEF Init
<1>2. /\ jit.source = [f \in Flags |-> Incoming] /\ jit.pending = <<>> /\ jit.released = {}
      /\ jit.local = [f \in Flags |-> FALSE] /\ jit.materialized = {} /\ jit.dirty = FALSE
      /\ jit.stored = word /\ jit.store = EmptyStore /\ JitShape(jit)
  BY <1>1 DEF JitShape
<1>3. Producing(jit) = {} /\ Waiting(jit) = {}
  BY <1>2 DEF Producing, Waiting
<1>4. JitTyped(jit) /\ ReleasedExact(jit)
  <2>1. \A f \in Flags : jit.source[f] = Incoming
    BY <1>2
  <2>2. <<>> \in Seq({})
    OBVIOUS
  <2>3. \E S : jit.pending \in Seq(S)
    BY <1>2, <2>2
  <2> QED BY <1>2, <1>3, <2>1, <2>3 DEF JitTyped, ReleasedExact
<1>5. RegsTyped /\ WordTyped(word)
  <2>1. regs \in [Regs -> Values] /\ word \in [Flags -> BOOLEAN]
    BY <1>1, BlockAssumption
  <2> QED BY <2>1 DEF RegsTyped, WordTyped
<1>6. JitHanded(jit, held, regs)
  <2>1. StoreInv(EmptyStore)
    BY EmptyStoreHolds
  <2>2. \A l \in Locals : HeldAt(held, l) = {} /\ EmptyStore.owners[l] = 0
    BY <1>1 DEF HeldAt, Locals, NoLocal, EmptyStore
  <2>3. \A l : HandlesAt(jit.pending, {}, l) = {}
    BY DEF HandlesAt
  <2>4. IsFiniteSet({}) /\ Cardinality({}) = 0
    BY FS_EmptySet
  <2>5. Counted(EmptyStore.owners, jit.pending, {}, held)
    BY <2>2, <2>3, <2>4 DEF Counted
  <2>6. \A v \in Selected : ~EmptyStore.available[v]
    BY DEF EmptyStore
  <2>7. held \in [Regs -> Locals \cup {NoLocal}] /\ \A r \in Regs : held[r] = NoLocal
    BY <1>1
  <2>8. Handed(EmptyStore, jit.pending, {}, held, regs)
    BY <2>1, <2>5, <2>6, <2>7 DEF Handed
  <2> QED BY <1>2, <1>3, <2>8 DEF JitHanded
<1>7. Showing(jit, word)
  <2>1. WordTyped(jit.local) /\ WordTyped(jit.stored)
    BY <1>2, <1>5 DEF WordTyped
  <2>2. \A f \in Flags : jit.source[f] = Incoming
    BY <1>2
  <2>3. Incoming # FlagsLocal
    BY DEF Incoming, FlagsLocal
  <2>4. jit.materialized = {f \in Flags : jit.source[f] = FlagsLocal}
    BY <1>2, <2>2, <2>3
  <2> QED BY <1>2, <1>3, <2>1, <2>2, <2>3, <2>4 DEF Showing, Shown, Clean
<1> QED BY <1>1, <1>2, <1>3, <1>4, <1>5, <1>6, <1>7
        DEF FlagInv, Holding, PendingSpeculative, PhaseTells

LEMMA StepKeeps == FlagInv /\ [Next]_vars => FlagInv'
<1> SUFFICES ASSUME FlagInv, [Next]_vars PROVE FlagInv'
  OBVIOUS
<1>1. ASSUME NEW faults \in BOOLEAN, BeginInstruction(faults) PROVE FlagInv'
  BY <1>1, BeginKeeps
<1>2. CASE EndInstruction
  BY <1>2, EndKeeps
<1>3. ASSUME NEW op \in Instructions, NEW w \in Widths, NEW dst \in Regs, NEW src \in Regs,
             NEW reuse \in BOOLEAN, Alu(op, w, dst, src, reuse)
      PROVE  FlagInv'
  BY <1>3, AluKeeps
<1>4. ASSUME NEW v \in Selected, UseValue(v) PROVE FlagInv'
  BY <1>4, UseValueKeeps
<1>5. ASSUME NEW r \in Regs, NEW v \in Selected, MaterializeRegister(r, v) PROVE FlagInv'
  BY <1>5, MaterializeRegisterKeeps
<1>6. ASSUME NEW cc \in Tested, Condition(cc) PROVE FlagInv'
  BY <1>6, ConditionKeeps, BlockAssumption
<1>7. CASE ExitBlock
  BY <1>7, ExitKeeps
<1>8. CASE UNCHANGED vars
  BY <1>8 DEF vars, FlagInv, RegsTyped, PhaseTells
<1> QED BY <1>1, <1>2, <1>3, <1>4, <1>5, <1>6, <1>7, <1>8 DEF Next

\* In every state of every block the emitter knows where each flag is, and who
\* holds each local (flag-state.ts, the shared value locals).
THEOREM FlagInvariance == Spec => []FlagInv
<1> QED BY InitHolds, StepKeeps, PTL DEF Spec

-----------------------------------------------------------------------------
(* What the invariant says.                                                 *)

LEMMA HandlesWaiting ==
    ASSUME FlagInv
    PROVE  Handles = Waiting(jit)
<1>1. \A p \in Producing(jit) : p \in jit.released <=> ~Referenced(jit, p)
  BY DEF FlagInv, Holding, ReleasedExact
<1>2. ASSUME NEW h \in Producing(jit) \X InputNames
      PROVE  h \in Handles <=> h \in Waiting(jit)
  <2>1. h[1] \in Producing(jit) /\ jit.pending[h[1]].inputs[h[2]].local = Place(jit.pending, h)
    BY DEF Place
  <2> QED BY <1>1, <2>1 DEF Handles, Waiting, Live, Producing
<1> QED BY <1>2 DEF Handles, Waiting, Producing

\* An operand a lazy producer waits for is still in its local, whatever was
\* written, cached or released since it was captured (emitSet, setSource,
\* captureForReuse, notifyRegisterWrite, release).
THEOREM OperandsSurvive == Spec => []PendingOperandsSurvive
<1>1. FlagInv => PendingOperandsSurvive
  <2> SUFFICES ASSUME FlagInv, NEW h \in Waiting(jit)
               PROVE  jit.store.content[jit.pending[h[1]].inputs[h[2]].local]
                        = jit.pending[h[1]].inputs[h[2]].value
    BY HandlesWaiting DEF PendingOperandsSurvive
  <2> QED BY DEF FlagInv, Holding, JitHanded, Handed, Place, Kept
<1> QED BY <1>1, FlagInvariance, PTL

\* A value local that emission would read instead of computing the value holds
\* what computing it would give, and so does one a register was copied from
\* (emitForUse, forgetWhere, notifyRegisterWrite).
THEOREM ValuesCurrent == Spec => []ValueLocalsCurrent
<1>1. FlagInv => ValueLocalsCurrent
  BY DEF FlagInv, Holding, JitHanded, Handed, ValueLocalsCurrent, ReadValue
<1> QED BY <1>1, FlagInvariance, PTL

\* Each local is owned by exactly the consumers that hold it, once each, and
\* the free list holds exactly the locals nothing refers to, once each
\* (captureForReuse, release, releaseLocalIfUnused, setSource).
THEOREM OwnershipHolds == Spec => []OwnershipExact
<1>1. FlagInv => OwnershipExact
  <2> SUFFICES ASSUME FlagInv PROVE OwnershipExact
    OBVIOUS
  <2>1. /\ StoreInv(jit.store) /\ Counted(jit.store.owners, jit.pending, Waiting(jit), held)
    BY DEF FlagInv, Holding, JitHanded, Handed
  <2>2. ASSUME NEW l \in Locals
        PROVE  jit.store.owners[l]
                 = Cardinality({h \in Handles : jit.pending[h[1]].inputs[h[2]].local = l})
                   + Cardinality({r \in Regs : held[r] = l})
    <3>1. {h \in Handles : jit.pending[h[1]].inputs[h[2]].local = l}
            = HandlesAt(jit.pending, Waiting(jit), l)
      BY HandlesWaiting DEF HandlesAt, Place
    <3>2. {r \in Regs : held[r] = l} = HeldAt(held, l)
      BY DEF HeldAt
    <3> QED BY <2>1, <3>1, <3>2 DEF Counted
  <2>3. ASSUME NEW l \in 1 .. jit.store.allocated
        PROVE  Cardinality({i \in 1 .. Len(jit.store.free) : jit.store.free[i] = l})
                 = (IF jit.store.owners[l] = 0 /\ jit.store.entry[l] = NoEntry THEN 1 ELSE 0)
    <3>1. PICK s : s = jit.store
      OBVIOUS
    <3>2. StoreTyped(s) /\ FreeExact(s)
      BY <2>1, <3>1 DEF StoreInv
    <3>3. l \in Locals /\ l <= s.allocated
      BY <3>1, <3>2, MaxLocalsAssumption DEF StoreTyped, Locals
    <3>4. PICK N : N = {i \in 1 .. Len(s.free) : s.free[i] = l}
      OBVIOUS
    <3>5. CASE Unused(s, l)
      <4>1. PICK i \in 1 .. Len(s.free) : s.free[i] = l
        BY <3>2, <3>3, <3>5 DEF FreeExact, InFree
      <4>2. N = {i}
        BY <3>2, <3>4, <4>1 DEF FreeExact
      <4>3. Cardinality(N) = 1
        BY <4>2, FS_Singleton
      <4> QED BY <3>1, <3>4, <3>5, <4>3 DEF Unused
    <3>6. CASE ~Unused(s, l)
      <4>1. N = {}
        BY <3>2, <3>3, <3>4, <3>6 DEF FreeExact, InFree
      <4>2. Cardinality(N) = 0
        BY <4>1, FS_EmptySet
      <4> QED BY <3>1, <3>4, <3>6, <4>2 DEF Unused
    <3> QED BY <3>5, <3>6
  <2> QED BY <2>2, <2>3 DEF OwnershipExact
<1> QED BY <1>1, FlagInvariance, PTL

\* While an instruction that can fault runs memory shows the flags of its
\* start, and at an exit those of everything the block executed (emitBoundary).
THEOREM MemoryShowsFlags == Spec => []MemoryShowsFlagsAtExits
<1>1. FlagInv => MemoryShowsFlagsAtExits
  BY DEF FlagInv, PhaseTells, MemoryShowsFlagsAtExits
<1> QED BY <1>1, FlagInvariance, PTL

LEMMA ConditionReadsOnly ==
    ASSUME NEW cc \in ConditionCodes, NEW a, NEW b, \A f \in ConditionReads(cc) : a[f] = b[f]
    PROVE  ConditionOf(cc, a) <=> ConditionOf(cc, b)
<1>1. CASE cc \in {"O", "NO"}
  BY <1>1 DEF ConditionReads, ConditionOf
<1>2. CASE cc \in {"B", "AE"}
  BY <1>2 DEF ConditionReads, ConditionOf
<1>3. CASE cc \in {"E", "NE"}
  BY <1>3 DEF ConditionReads, ConditionOf
<1>4. CASE cc \in {"BE", "A"}
  BY <1>4 DEF ConditionReads, ConditionOf
<1>5. CASE cc \in {"S", "NS"}
  BY <1>5 DEF ConditionReads, ConditionOf
<1>6. CASE cc \in {"P", "NP"}
  BY <1>6 DEF ConditionReads, ConditionOf
<1>7. CASE cc \in {"L", "GE"}
  BY <1>7 DEF ConditionReads, ConditionOf
<1>8. CASE cc \in {"LE", "G"}
  BY <1>8 DEF ConditionReads, ConditionOf
<1> QED BY <1>1, <1>2, <1>3, <1>4, <1>5, <1>6, <1>7, <1>8 DEF ConditionCodes

\* What DefineFlags makes of the truncated result alone.
Low(w, in) == Masked(w, in.result)
ResultFlags(d, P, w, in) ==
    /\ d["ZF"] = (Low(w, in) = 0)
    /\ d["SF"] = SignBit(w, Low(w, in))
    /\ d["PF"] = Parity8(Low(w, in))
    /\ P = "logic" => d["CF"] = FALSE /\ d["OF"] = FALSE

LEMMA ProducerFlags ==
    ASSUME NEW P \in Producers, NEW w, NEW in, NEW d, d = DefineFlags(P, w, in)
    PROVE  ResultFlags(d, P, w, in)
<1>1. PICK z : z = zspFlags(w, Low(w, in))
  OBVIOUS
<1>2. /\ DOMAIN z = {"ZF", "SF", "PF"} /\ z["ZF"] = (Low(w, in) = 0)
      /\ z["SF"] = SignBit(w, Low(w, in)) /\ z["PF"] = Parity8(Low(w, in))
  BY <1>1 DEF zspFlags
<1>3. PICK g : DOMAIN g = {"CF", "OF", "AF"} /\ d = Spread(z, g) /\ (P = "logic" => g["CF"] = FALSE /\ g["OF"] = FALSE)
  <2>1. CASE P = "logic"
    <3>1. d = Spread(z, [CF |-> FALSE, OF |-> FALSE, AF |-> FALSE])
      BY <1>1, <2>1 DEF DefineFlags, Low
    <3> QED BY <3>1
  <2>2. CASE P = "add"
    <3>1. PICK g : g = addCarryFlags(w, in.left, in.right, Low(w, in))
      OBVIOUS
    <3>2. DOMAIN g = {"CF", "OF", "AF"}
      BY <3>1 DEF addCarryFlags
    <3>3. d = Spread(z, g)
      BY <1>1, <2>2, <3>1 DEF DefineFlags, Low
    <3> QED BY <2>2, <3>2, <3>3
  <2>3. CASE P = "sub"
    <3>1. PICK g : g = subCarryFlags(w, in.left, in.right, Low(w, in))
      OBVIOUS
    <3>2. DOMAIN g = {"CF", "OF", "AF"}
      BY <3>1 DEF subCarryFlags
    <3>3. d = Spread(z, g)
      BY <1>1, <2>3, <3>1 DEF DefineFlags, Low
    <3> QED BY <2>3, <3>2, <3>3
  <2>4. CASE P = "inc"
    <3>1. PICK g : g = addCarryFlags(w, in.left, 1, Low(w, in))
      OBVIOUS
    <3>2. DOMAIN g = {"CF", "OF", "AF"}
      BY <3>1 DEF addCarryFlags
    <3>3. d = Spread(z, g)
      BY <1>1, <2>4, <3>1 DEF DefineFlags, Low
    <3> QED BY <2>4, <3>2, <3>3
  <2>5. CASE P = "dec"
    <3>1. PICK g : g = subCarryFlags(w, in.left, 1, Low(w, in))
      OBVIOUS
    <3>2. DOMAIN g = {"CF", "OF", "AF"}
      BY <3>1 DEF subCarryFlags
    <3>3. d = Spread(z, g)
      BY <1>1, <2>5, <3>1 DEF DefineFlags, Low
    <3> QED BY <2>5, <3>2, <3>3
  <2> QED BY <2>1, <2>2, <2>3, <2>4, <2>5 DEF Producers
<1>4. \A f \in Flags : d[f] = IF f \in DOMAIN g THEN g[f] ELSE z[f]
  BY <1>3 DEF Spread
<1> QED BY <1>2, <1>3, <1>4 DEF Flags, ResultFlags

\* Testing the result of a producer, or nothing, is testing the flags it defines.
LEMMA DirectAgrees ==
    ASSUME NEW P \in Producers, NEW cc \in ConditionCodes, NEW w, NEW in,
           NEW kind, kind = flagProducerConditionKind(P, cc, InputNames),
           kind # "none", kind \notin CompareKinds,
           NEW u, \A f \in ConditionReads(cc) : u[f] = DefineFlags(P, w, in)[f]
    PROVE  emitFlagProducerCondition(kind, w, in) <=> ConditionOf(cc, u)
<1>1. PICK d : d = DefineFlags(P, w, in)
  OBVIOUS
<1>2. /\ d["ZF"] = (Low(w, in) = 0)
      /\ d["SF"] = SignBit(w, Low(w, in))
      /\ d["PF"] = Parity8(Low(w, in))
      /\ P = "logic" => d["CF"] = FALSE /\ d["OF"] = FALSE
  <2>1. ResultFlags(d, P, w, in)
    BY <1>1, ProducerFlags, Zenon
  <2> QED BY <2>1 DEF ResultFlags
<1>3. ConditionOf(cc, u) <=> ConditionOf(cc, d)
  BY <1>1, ConditionReadsOnly
<1>4. PICK res : res = Low(w, in)
  OBVIOUS
<1>5. CASE P # "logic"
  <2>1. cc \in DOMAIN ResultKind /\ kind = ResultKind[cc]
    BY <1>5 DEF flagProducerConditionKind, InputNames, CompareKind, CompareKinds
  <2>2. CASE cc = "E"
    BY <1>2, <1>3, <2>1, <2>2 DEF ConditionOf, ResultKind, emitFlagProducerCondition, Low
  <2>3. CASE cc = "NE"
    BY <1>2, <1>3, <2>1, <2>3 DEF ConditionOf, ResultKind, emitFlagProducerCondition, Low
  <2>4. CASE cc = "S"
    BY <1>2, <1>3, <2>1, <2>4 DEF ConditionOf, ResultKind, emitFlagProducerCondition, Low
  <2>5. CASE cc = "NS"
    BY <1>2, <1>3, <2>1, <2>5 DEF ConditionOf, ResultKind, emitFlagProducerCondition, Low
  <2>6. CASE cc = "P"
    BY <1>2, <1>3, <2>1, <2>6 DEF ConditionOf, ResultKind, emitFlagProducerCondition, Low
  <2>7. CASE cc = "NP"
    BY <1>2, <1>3, <2>1, <2>7 DEF ConditionOf, ResultKind, emitFlagProducerCondition, Low
  <2> QED BY <2>1, <2>2, <2>3, <2>4, <2>5, <2>6, <2>7 DEF ResultKind
<1>6. CASE P = "logic"
  <2>1. kind = LogicKind[cc]
    BY <1>6 DEF flagProducerConditionKind
  <2>2. /\ cc \in {"O", "B"} => kind = "constFalse"
        /\ cc \in {"NO", "AE"} => kind = "constTrue"
        /\ cc \in {"E", "BE"} => kind = "zero"
        /\ cc \in {"NE", "A"} => kind = "nonZero"
        /\ cc \in {"S", "L"} => kind = "sign"
        /\ cc \in {"NS", "GE"} => kind = "notSign"
        /\ cc = "P" => kind = "parity8"
        /\ cc = "NP" => kind = "notParity8"
        /\ cc = "LE" => kind = "zeroOrSign"
        /\ cc = "G" => kind = "nonZeroAndNotSign"
    BY <2>1 DEF LogicKind
  <2> DEFINE tested == emitFlagProducerCondition(kind, w, in)
             zero == Low(w, in) = 0
             sign == SignBit(w, Low(w, in))
             even == Parity8(Low(w, in))
  <2>3. /\ kind = "constFalse" => ~tested
        /\ kind = "constTrue" => tested
        /\ kind = "zero" => (tested <=> zero)
        /\ kind = "nonZero" => (tested <=> ~zero)
        /\ kind = "sign" => (tested <=> sign)
        /\ kind = "notSign" => (tested <=> ~sign)
        /\ kind = "parity8" => (tested <=> even)
        /\ kind = "notParity8" => (tested <=> ~even)
        /\ kind = "zeroOrSign" => (tested <=> zero \/ sign)
        /\ kind = "nonZeroAndNotSign" => (tested <=> ~zero /\ ~sign)
    BY DEF emitFlagProducerCondition, Low
  <2>4. sign \in BOOLEAN /\ zero \in BOOLEAN
    BY DEF SignBit
  <2> DEFINE answer == ConditionOf(cc, d)
  <2>5. /\ cc \in {"O", "B"} => ~answer
        /\ cc \in {"NO", "AE"} => answer
        /\ cc \in {"E", "BE"} => (answer <=> zero)
        /\ cc \in {"NE", "A"} => (answer <=> ~zero)
    BY <1>2, <1>6 DEF ConditionOf
  <2>6. /\ cc \in {"S", "L"} => (answer <=> sign)
        /\ cc \in {"NS", "GE"} => (answer <=> ~sign)
        /\ cc = "LE" => (answer <=> zero \/ sign)
        /\ cc = "G" => (answer <=> ~zero /\ ~sign)
    BY <1>2, <1>6, <2>4 DEF ConditionOf
  <2>7. /\ cc = "P" => (answer <=> even)
        /\ cc = "NP" => (answer <=> ~even)
    BY <1>2 DEF ConditionOf
  <2> HIDE DEF tested, zero, sign, even, answer
  <2>8. tested <=> answer
    BY <2>2, <2>3, <2>5, <2>6, <2>7 DEF ConditionCodes
  <2> QED BY <1>3, <2>8 DEF tested, answer
<1> QED BY <1>5, <1>6

\* Everything but comparing the operands of a subtraction is answered as the
\* word says: the flags materialized from whatever mixture of memory, local and
\* pending sources they had, and the tests of a pending result
\* (emitAluFlagsCondition, emitMaterialize, flagProducerConditionKind).
UncomparedConditions ==
    \A cc \in ConditionCodes :
      (\A p \in ConditionSource(jit, cc) :
         flagProducerConditionKind(jit.pending[p].producer, cc, InputNames) \notin CompareKinds)
      => (EmitAluFlagsCondition(jit, cc) <=> ConditionOf(cc, word))

\* UncomparedConditions holds in every reachable state: a condition answered from
\* materialized flags or from a pending result never differs from the word.
THEOREM ConditionsAnswered == Spec => []UncomparedConditions
<1>1. FlagInv => UncomparedConditions
  <2> SUFFICES ASSUME FlagInv, NEW cc \in ConditionCodes,
                      \A p \in ConditionSource(jit, cc) :
                        flagProducerConditionKind(jit.pending[p].producer, cc, InputNames)
                          \notin CompareKinds
               PROVE  EmitAluFlagsCondition(jit, cc) <=> ConditionOf(cc, word)
    BY DEF UncomparedConditions
  <2>1. CASE ConditionSource(jit, cc) = {}
    <3>1. PICK t : t = EmitMaterialize(jit, ConditionReads(cc))
      OBVIOUS
    <3>2. EmitAluFlagsCondition(jit, cc) <=> ConditionOf(cc, t.local)
      BY <2>1, <3>1 DEF EmitAluFlagsCondition, EmitCondition
    <3>3. ConditionReads(cc) \in SUBSET Flags
      BY DEF ConditionReads, ConditionCodes, Flags
    <3>4. \A f \in ConditionReads(cc) : t.local[f] = word[f]
      BY <3>1, <3>3, EmitMaterializeKeeps DEF FlagInv
    <3> QED BY <3>2, <3>4, ConditionReadsOnly
  <2>2. CASE ConditionSource(jit, cc) # {}
    <3>1. PICK p : p = CHOOSE q \in ConditionSource(jit, cc) : TRUE
      OBVIOUS
    <3>2. p \in ConditionSource(jit, cc)
      BY <2>2, <3>1
    <3>3. PICK kind, P, w, in :
            /\ kind = flagProducerConditionKind(P, cc, InputNames)
            /\ P = jit.pending[p].producer /\ w = jit.pending[p].width
            /\ in = PendingInputs(jit, p)
      OBVIOUS
    <3>4. EmitAluFlagsCondition(jit, cc) <=> emitFlagProducerCondition(kind, w, in)
      BY <2>2, <3>1, <3>3 DEF EmitAluFlagsCondition, DirectCondition
    <3>5. /\ p \in Producing(jit) /\ \A f \in ConditionReads(cc) : jit.source[f] = p
          /\ kind # "none" /\ kind \notin CompareKinds
      BY <3>2, <3>3 DEF ConditionSource, Producing
    <3>6. ConditionReads(cc) \in SUBSET Flags /\ ConditionReads(cc) # {}
      BY DEF ConditionReads, ConditionCodes, Flags
    <3>7. Referenced(jit, p)
      BY <3>5, <3>6 DEF Referenced
    <3>8. in = KeptInputs(jit, p)
      BY <3>3, <3>5, <3>7, InputsKept DEF FlagInv
    <3>9. \A f \in ConditionReads(cc) : word[f] = DefineFlags(P, w, in)[f]
      BY <3>3, <3>5, <3>6, <3>8 DEF FlagInv, Showing, Shown, FlagsOf
    <3>10. P \in Producers
      BY <3>3, <3>5, <3>6 DEF FlagInv, Showing, Shown
    <3>11. emitFlagProducerCondition(kind, w, in) <=> ConditionOf(cc, word)
      BY <3>3, <3>5, <3>9, <3>10, DirectAgrees
    <3> QED BY <3>4, <3>11
  <2> QED BY <2>1, <2>2
<1> QED BY <1>1, FlagInvariance, PTL

-----------------------------------------------------------------------------
(* Values and counts, given what the module takes from arithmetic.          *)

\* One width divides another.
LEMMA Division ==
    ASSUME NEW m \in Nat \ {0}, NEW M \in Nat \ {0}, M % m = 0
    PROVE  m <= M /\ \E k \in Nat : M = m * k
<1>1. PICK k : k = M \div m
  OBVIOUS
<1>2. k \in Nat /\ M = m * k + (M % m)
  BY <1>1
<1>3. M < m => M % m = M
  OBVIOUS
<1> QED BY <1>2, <1>3

LEMMA WidthsFit ==
    ASSUME Arithmetic, NEW w \in Widths
    PROVE  /\ 2 ^ Bits(w) \in Nat \ {0} /\ 2 ^ DwordBits \in Nat \ {0}
           /\ 2 ^ DwordBits % 2 ^ Bits(w) = 0
           /\ OperandValues(w) \subseteq Values /\ 0 \in OperandValues(w)
<1>1. 32 \in Widths /\ Bits(32) = DwordBits
  BY DEF Widths, Bits
<1>2. PICK m, M : m = 2 ^ Bits(w) /\ M = 2 ^ DwordBits
  OBVIOUS
<1>3. m \in Nat \ {0} /\ M \in Nat \ {0} /\ M % m = 0
  BY <1>1, <1>2 DEF Arithmetic, WidthsDivide
<1>4. m <= M
  BY <1>3, Division
<1>5. OperandValues(w) = 0 .. m - 1 /\ Values = 0 .. M - 1
  BY <1>2 DEF OperandValues, Values
<1> QED BY <1>2, <1>3, <1>4, <1>5

LEMMA MaskedFits ==
    ASSUME Arithmetic, NEW w \in Widths, NEW x \in Values
    PROVE  Masked(w, x) \in OperandValues(w)
<1>1. PICK m, M : m = 2 ^ Bits(w) /\ M = 2 ^ DwordBits
  OBVIOUS
<1>2. m \in Nat \ {0} /\ M \in Nat \ {0} /\ x \in 0 .. M - 1
  BY <1>1, WidthsFit DEF Values
<1>3. x % m \in 0 .. m - 1
  BY <1>2
<1> QED BY <1>1, <1>3 DEF Masked, OperandValues

\* Writing the low part of a value leaves a value.
LEMMA WritesFit ==
    ASSUME Arithmetic, NEW w \in Widths, NEW x \in Values, NEW y \in Values
    PROVE  Writes(w, x, y) \in Values
<1>1. PICK m, M : m = 2 ^ Bits(w) /\ M = 2 ^ DwordBits
  OBVIOUS
<1>2. /\ m \in Nat \ {0} /\ M \in Nat \ {0} /\ M % m = 0
      /\ x \in 0 .. M - 1 /\ y \in 0 .. M - 1
  BY <1>1, WidthsFit DEF Values
<1>3. PICK k \in Nat : M = m * k
  BY <1>2, Division
<1>4. PICK q, r, z : q = x \div m /\ r = x % m /\ z = y % m
  OBVIOUS
<1>5. q \in Nat /\ r \in 0 .. m - 1 /\ z \in 0 .. m - 1 /\ x = m * q + r
  BY <1>2, <1>4
<1>6. q < k
  <2>1. ASSUME k <= q PROVE FALSE
    <3>1. m * k <= m * q
      BY <1>2, <1>3, <1>5, <2>1
    <3> QED BY <1>2, <1>3, <1>5, <3>1
  <2> QED BY <1>3, <1>5, <2>1
<1>7. m * q + m <= m * k
  <2>1. m * (q + 1) <= m * k
    BY <1>2, <1>3, <1>5, <1>6
  <2> QED BY <1>2, <1>5, <2>1
<1>8. m * q \in Nat
  BY <1>2, <1>5
<1>9. x - r + z \in 0 .. M - 1
  BY <1>2, <1>3, <1>5, <1>7, <1>8
<1> QED BY <1>1, <1>4, <1>9 DEF Writes, Masked, Values

\* The operands of an instruction on registers, and its result.
LEMMA OperandsFit ==
    ASSUME Arithmetic, NEW op \in Instructions, NEW w \in Widths,
           NEW x \in OperandValues(w), NEW y \in OperandValues(w),
           NEW in, in = Operands(op, x, y)
    PROVE  /\ Result(op, in[1], in[2]) \in Values
           /\ Producer[op] = "sub" => in[1] \in OperandValues(w) /\ in[2] \in OperandValues(w)
<1>1. x \in Values /\ y \in Values /\ 0 \in OperandValues(w)
  BY WidthsFit
<1>2. Result(op, in[1], in[2]) \in Values
  BY <1>1 DEF Arithmetic, ResultsFit
<1>3. ASSUME Producer[op] = "sub" PROVE op = "neg" \/ op \notin Unary
  BY <1>3 DEF Instructions, Producer, Unary
<1> QED BY <1>1, <1>2, <1>3 DEF Operands

\* What a subtraction waits with.
Subtracted(d) ==
    /\ d.width \in Widths
    /\ \E x, y \in OperandValues(d.width) :
         \A n \in InputNames : d.inputs[n].value = Executed("sub", <<x, y>>)[n]
Comparable(pd) == \A p \in 1 .. Len(pd) : pd[p].producer = "sub" => Subtracted(pd[p])

ValuesInv ==
    /\ regs \in [Regs -> Values]
    /\ arch \in [Flags -> BOOLEAN] /\ entry \in [Flags -> BOOLEAN]
    /\ undefined \subseteq {"AF"}
    /\ WordIsArchitectural
    /\ Comparable(jit.pending)

\* The registers whose known value is a local.
Known(h) == {r \in Regs : h[r] # NoLocal}
CountsInv ==
    /\ Len(jit.pending) <= MaxWriters
    /\ copies \in 0 .. MaxCopies
    /\ Cardinality(Known(held)) <= copies

LEMMA WaitsSubtracted ==
    ASSUME Arithmetic, NEW op \in Instructions, NEW w \in Widths,
           NEW x \in OperandValues(w), NEW y \in OperandValues(w),
           NEW d, Waits(d, op, w, Operands(op, x, y)), d.producer = "sub"
    PROVE  Subtracted(d)
<1>1. PICK in : in = Operands(op, x, y)
  OBVIOUS
<1>2. Producer[op] = "sub" /\ d.width = w /\ \A n \in ProducerInputs["sub"] : d.inputs[n].value = Executed(op, in)[n]
  BY <1>1 DEF Waits
<1>3. in[1] \in OperandValues(w) /\ in[2] \in OperandValues(w)
  BY <1>1, <1>2, OperandsFit
<1>4. op \in {"sub", "cmp", "neg"}
  BY <1>2 DEF Instructions, Producer
<1>5. Executed(op, in) = Executed("sub", <<in[1], in[2]>>)
  BY <1>4 DEF Executed, Result
<1>6. ProducerInputs["sub"] = InputNames
  BY DEF ProducerInputs, InputNames
<1> QED BY <1>2, <1>3, <1>5, <1>6 DEF Subtracted

LEMMA ComparableAppended ==
    ASSUME NEW pd, \E S : pd \in Seq(S), Comparable(pd), NEW d, d.producer = "sub" => Subtracted(d),
           NEW pd2, pd2 = Append(pd, d)
    PROVE  Comparable(pd2) /\ Len(pd2) = Len(pd) + 1 /\ Len(pd) \in Nat
<1>1. /\ Len(pd) \in Nat /\ Len(pd2) = Len(pd) + 1
      /\ pd2[Len(pd) + 1] = d /\ \A i \in 1 .. Len(pd) : pd2[i] = pd[i]
  BY Appended
<1>2. \A p \in 1 .. Len(pd2) : p \in 1 .. Len(pd) \/ p = Len(pd) + 1
  BY <1>1
<1> QED BY <1>1, <1>2 DEF Comparable

LEMMA ExactBoolean ==
    ASSUME NEW op \in Instructions, NEW w, NEW x, NEW y, NEW f \in Flags
    PROVE  ArithmeticFlags(op, w, x, y)[f] \in BOOLEAN
<1>1. PICK g : g = ArithmeticFlags(op, w, x, y)
  OBVIOUS
<1>2. g["CF"] \in BOOLEAN
  BY <1>1 DEF ArithmeticFlags
<1>3. g["ZF"] \in BOOLEAN
  BY <1>1 DEF ArithmeticFlags
<1>4. g["SF"] \in BOOLEAN
  BY <1>1 DEF ArithmeticFlags
<1>5. g["PF"] \in BOOLEAN
  BY <1>1 DEF ArithmeticFlags, Parity8
<1>6. g["AF"] \in BOOLEAN
  <2>1. PICK half : half = 2 ^ HalfBit
    OBVIOUS
  <2>2. CASE Producer[op] \in {"add", "inc"}
    <3>1. g["AF"] = ((x % half) + (y % half) >= half)
      BY <1>1, <2>1, <2>2 DEF ArithmeticFlags
    <3> QED BY <3>1
  <2>3. CASE Producer[op] \notin {"add", "inc"}
    <3>1. g["AF"] = ((x % half) < (y % half))
      BY <1>1, <2>1, <2>3 DEF ArithmeticFlags
    <3> QED BY <3>1
  <2> QED BY <2>2, <2>3
<1>7. g["OF"] \in BOOLEAN
  BY <1>1 DEF ArithmeticFlags
<1> QED BY <1>1, <1>2, <1>3, <1>4, <1>5, <1>6, <1>7 DEF Flags

\* The word and the flags of arithmetic move together.
LEMMA FlagsMove ==
    ASSUME Arithmetic, NEW op \in Instructions, NEW w \in Widths,
           NEW x \in OperandValues(w), NEW y \in OperandValues(w), NEW in, in = Operands(op, x, y),
           NEW f \in Flags, f \notin (undefined \ WrittenMask[Producer[op]]) \cup UndefMask[Producer[op]],
           WordIsArchitectural
    PROVE  emitSetFlags(word, Descriptor(Producer[op], w, Executed(op, in)), Flags)[f]
             = IF f \in WrittenMask[Producer[op]] THEN ArithmeticFlags(op, w, in[1], in[2])[f] ELSE arch[f]
<1>1. PICK P, d, g : P = Producer[op] /\ d = DefineFlags(P, w, Executed(op, in)) /\ g = ArithmeticFlags(op, w, in[1], in[2])
  OBVIOUS
<1>2. emitSetFlags(word, Descriptor(P, w, Executed(op, in)), Flags)[f]
        = IF f \in WrittenMask[P] THEN d[f] ELSE word[f]
  BY <1>1 DEF emitSetFlags, Descriptor
<1>3. CASE f \in WrittenMask[P]
  <2>1. f \in WrittenMask[P] \ UndefMask[P]
    BY <1>1, <1>3
  <2>2. d[f] = g[f]
    BY <1>1, <2>1 DEF Arithmetic, FlagsExact
  <2> QED BY <1>1, <1>2, <1>3, <2>2
<1>4. CASE f \notin WrittenMask[P]
  <2>1. f \notin undefined
    BY <1>1, <1>4
  <2>2. word[f] = arch[f]
    BY <2>1 DEF WordIsArchitectural
  <2> QED BY <1>1, <1>2, <1>4, <2>2
<1> QED BY <1>3, <1>4

LEMMA AluValues ==
    ASSUME Arithmetic, FlagInv, ValuesInv,
           NEW op \in Instructions, NEW w \in Widths, NEW dst \in Regs, NEW src \in Regs,
           NEW reuse \in BOOLEAN, Alu(op, w, dst, src, reuse)
    PROVE  ValuesInv'
<1>1. PICK x, y, in, P : /\ x = ReadValue(<<dst, w>>) /\ y = ReadValue(<<src, w>>)
                         /\ in = Operands(op, x, y) /\ P = Producer[op]
  OBVIOUS
<1>2. /\ word' = emitSetFlags(word, Descriptor(P, w, Executed(op, in)), Flags)
      /\ arch' = [f \in Flags |-> IF f \in WrittenMask[P] THEN ArithmeticFlags(op, w, in[1], in[2])[f]
                                  ELSE arch[f]]
      /\ undefined' = (undefined \ WrittenMask[P]) \cup UndefMask[P]
      /\ regs' = regs \/ regs' = [regs EXCEPT ![dst] = Writes(w, @, Result(op, in[1], in[2]))]
      /\ entry' = entry
  BY <1>1 DEF Alu, Executed
<1>3. x \in OperandValues(w) /\ y \in OperandValues(w)
  BY <1>1, MaskedFits DEF ReadValue, ValuesInv
<1>4. Result(op, in[1], in[2]) \in Values
  BY <1>1, <1>3, OperandsFit
<1>5. regs' \in [Regs -> Values]
  <2>1. Writes(w, regs[dst], Result(op, in[1], in[2])) \in Values
    BY <1>4, WritesFit DEF ValuesInv
  <2> QED BY <1>2, <2>1 DEF ValuesInv
<1>6. arch' \in [Flags -> BOOLEAN]
  BY <1>2, ExactBoolean DEF ValuesInv
<1>7. undefined' \subseteq {"AF"}
  <2>1. UndefMask[P] \subseteq {"AF"}
    BY <1>1 DEF UndefMask, Producers, Producer, Instructions
  <2> QED BY <1>2, <2>1 DEF ValuesInv
<1>8. ASSUME NEW f \in Flags, f \notin undefined' PROVE word'[f] = arch'[f]
  <2>1. f \notin (undefined \ WrittenMask[P]) \cup UndefMask[P]
    BY <1>2, <1>8
  <2>2. emitSetFlags(word, Descriptor(P, w, Executed(op, in)), Flags)[f]
          = IF f \in WrittenMask[P] THEN ArithmeticFlags(op, w, in[1], in[2])[f] ELSE arch[f]
    BY <1>1, <1>3, <2>1, FlagsMove DEF ValuesInv
  <2> QED BY <1>2, <2>2
<1>9. Comparable(jit.pending)'
  <2>1. PICK d : /\ jit'.pending = Append(jit.pending, d)
                 /\ Waits(d, op, w, Operands(op, x, y))
    BY <1>1, AluKeeps
  <2>2. d.producer = "sub" => Subtracted(d)
    BY <1>3, <2>1, WaitsSubtracted
  <2>3. (\E S : jit.pending \in Seq(S)) /\ Comparable(jit.pending)
    BY DEF FlagInv, Holding, JitTyped, ValuesInv
  <2>4. PICK old, new : old = jit.pending /\ new = jit'.pending
    OBVIOUS
  <2>5. Comparable(new)
    BY <2>1, <2>2, <2>3, <2>4, ComparableAppended
  <2> QED BY <2>4, <2>5
<1> QED BY <1>2, <1>5, <1>6, <1>7, <1>8, <1>9 DEF ValuesInv, WordIsArchitectural

LEMMA KnownFinite ==
    ASSUME NEW h
    PROVE  IsFiniteSet(Known(h)) /\ Cardinality(Known(h)) \in Nat
<1>1. IsFiniteSet(Known(h))
  BY FS_Subset, BlockAssumption DEF Known
<1> QED BY <1>1, FS_CardinalityType

\* A write makes a register unknown; a materialization makes one known.
LEMMA KnownMoves ==
    ASSUME NEW h, NEW r \in Regs, NEW l, NEW g, g = [h EXCEPT ![r] = l], h \in [Regs -> Locals \cup {NoLocal}]
    PROVE  /\ Cardinality(Known(g)) <= Cardinality(Known(h)) + 1
           /\ l = NoLocal => Cardinality(Known(g)) <= Cardinality(Known(h))
<1>1. \A q \in Regs : q # r => g[q] = h[q]
  OBVIOUS
<1>2. g[r] = l
  OBVIOUS
<1>3. Known(g) \subseteq Known(h) \cup {r} /\ (l = NoLocal => Known(g) \subseteq Known(h))
  BY <1>1, <1>2 DEF Known
<1>4. /\ IsFiniteSet(Known(h)) /\ Cardinality(Known(h)) \in Nat
      /\ IsFiniteSet(Known(g)) /\ Cardinality(Known(g)) \in Nat
  BY KnownFinite
<1>5. IsFiniteSet(Known(h) \cup {r}) /\ Cardinality(Known(h) \cup {r}) <= Cardinality(Known(h)) + 1
  <2>1. PICK K, n : K = Known(h) /\ n = Cardinality(K)
    OBVIOUS
  <2>2. IsFiniteSet(K \cup {r}) /\ Cardinality(K \cup {r}) = IF r \in K THEN n ELSE n + 1
    BY <1>4, <2>1, FS_AddElement
  <2>3. n \in Nat
    BY <1>4, <2>1
  <2> QED BY <2>1, <2>2, <2>3
<1>6. Cardinality(Known(h) \cup {r}) \in Nat
  BY <1>5, FS_CardinalityType
<1>7. Cardinality(Known(g)) <= Cardinality(Known(h) \cup {r})
  BY <1>3, <1>5, FS_Subset
<1>8. l = NoLocal => Cardinality(Known(g)) <= Cardinality(Known(h))
  BY <1>3, <1>4, FS_Subset
<1> QED BY <1>4, <1>5, <1>6, <1>7, <1>8

LEMMA CountsStep ==
    ASSUME FlagInv, CountsInv, [Next]_vars
    PROVE  CountsInv'
<1>0. /\ held \in [Regs -> Locals \cup {NoLocal}] /\ Len(jit.pending) \in Nat
      /\ Cardinality(Known(held)) \in Nat /\ Cardinality(Known(held')) \in Nat
      /\ MaxCopies \in Nat /\ MaxWriters \in Nat /\ copies \in 0 .. MaxCopies
  <2>1. \E S : jit.pending \in Seq(S)
    BY DEF FlagInv, Holding, JitTyped
  <2>2. PICK pd : pd = jit.pending
    OBVIOUS
  <2>3. Len(pd) \in Nat
    BY <2>1, <2>2
  <2> QED BY <2>2, <2>3, KnownFinite, BlockAssumption DEF FlagInv, Holding, JitHanded, Handed, CountsInv
<1>1. ASSUME NEW faults \in BOOLEAN, BeginInstruction(faults) PROVE CountsInv'
  <2>1. jit'.pending = jit.pending
    BY <1>1, BeginKeeps
  <2> QED BY <1>1, <2>1 DEF BeginInstruction, CountsInv
<1>2. CASE EndInstruction
  BY <1>2 DEF EndInstruction, CountsInv
<1>3. ASSUME NEW op \in Instructions, NEW w \in Widths, NEW dst \in Regs, NEW src \in Regs,
             NEW reuse \in BOOLEAN, Alu(op, w, dst, src, reuse)
      PROVE  CountsInv'
  <2>1. PICK d : jit'.pending = Append(jit.pending, d)
    BY <1>3, AluKeeps
  <2>2. /\ Len(jit.pending) < MaxWriters /\ copies' = copies
        /\ held' = held \/ held' = [held EXCEPT ![dst] = NoLocal]
    BY <1>3 DEF Alu
  <2>3. Len(jit'.pending) <= MaxWriters
    <3>1. PICK old, new : old = jit.pending /\ new = jit'.pending
      OBVIOUS
    <3>2. (\E S : old \in Seq(S)) /\ new = Append(old, d)
      BY <2>1, <3>1 DEF FlagInv, Holding, JitTyped
    <3>3. Len(new) = Len(old) + 1 /\ Len(old) \in Nat
      BY <3>2, Appended
    <3> QED BY <1>0, <2>2, <3>1, <3>3
  <2>4. Cardinality(Known(held')) <= copies
    <3>1. CASE held' = held
      BY <3>1 DEF CountsInv
    <3>2. CASE held' = [held EXCEPT ![dst] = NoLocal]
      <4>1. PICK g : g = held'
        OBVIOUS
      <4>2. Cardinality(Known(g)) <= Cardinality(Known(held))
        BY <1>0, <3>2, <4>1, KnownMoves
      <4> QED BY <1>0, <4>1, <4>2 DEF CountsInv
    <3> QED BY <2>2, <3>1, <3>2
  <2> QED BY <2>2, <2>3, <2>4 DEF CountsInv
<1>4. ASSUME NEW v \in Selected, UseValue(v) PROVE CountsInv'
  <2>1. jit'.pending = jit.pending
    BY <1>4, UseValueKeeps
  <2> QED BY <1>4, <2>1 DEF UseValue, CountsInv
<1>5. ASSUME NEW r \in Regs, NEW v \in Selected, MaterializeRegister(r, v) PROVE CountsInv'
  <2>1. jit'.pending = jit.pending
    BY <1>5, MaterializeRegisterKeeps
  <2>2. PICK l : held' = [held EXCEPT ![r] = l] /\ copies < MaxCopies /\ copies' = copies + 1
    BY <1>5 DEF MaterializeRegister
  <2>3. PICK g : g = held'
    OBVIOUS
  <2>4. Cardinality(Known(g)) <= Cardinality(Known(held)) + 1
    BY <1>0, <2>2, <2>3, KnownMoves
  <2> QED BY <1>0, <2>1, <2>2, <2>3, <2>4 DEF CountsInv
<1>6. ASSUME NEW cc \in Tested, Condition(cc) PROVE CountsInv'
  <2>1. jit'.pending = jit.pending
    BY <1>6, ConditionKeeps, BlockAssumption
  <2> QED BY <1>6, <2>1 DEF Condition, CountsInv
<1>7. CASE ExitBlock
  <2>1. jit'.pending = jit.pending
    BY <1>7, ExitKeeps
  <2> QED BY <1>7, <2>1 DEF ExitBlock, CountsInv
<1>8. CASE UNCHANGED vars
  BY <1>8 DEF vars, CountsInv
<1> QED BY <1>1, <1>2, <1>3, <1>4, <1>5, <1>6, <1>7, <1>8 DEF Next

LEMMA ValuesStep ==
    ASSUME Arithmetic, FlagInv, ValuesInv, [Next]_vars
    PROVE  ValuesInv'
<1> DEFINE Rest == UNCHANGED <<regs, word, arch, undefined, entry>>
<1>0. jit'.pending = jit.pending /\ Rest => ValuesInv'
  BY DEF ValuesInv, WordIsArchitectural
<1>1. ASSUME NEW faults \in BOOLEAN, BeginInstruction(faults) PROVE ValuesInv'
  <2>1. jit'.pending = jit.pending
    BY <1>1, BeginKeeps
  <2> QED BY <1>0, <1>1, <2>1 DEF BeginInstruction
<1>2. CASE EndInstruction
  <2>1. entry' \in [Flags -> BOOLEAN]
    BY <1>2 DEF EndInstruction, FlagInv, WordTyped
  <2> QED BY <1>2, <2>1 DEF EndInstruction, ValuesInv, WordIsArchitectural
<1>3. ASSUME NEW op \in Instructions, NEW w \in Widths, NEW dst \in Regs, NEW src \in Regs,
             NEW reuse \in BOOLEAN, Alu(op, w, dst, src, reuse)
      PROVE  ValuesInv'
  BY <1>3, AluValues
<1>4. ASSUME NEW v \in Selected, UseValue(v) PROVE ValuesInv'
  <2>1. jit'.pending = jit.pending
    BY <1>4, UseValueKeeps
  <2> QED BY <1>0, <1>4, <2>1 DEF UseValue
<1>5. ASSUME NEW r \in Regs, NEW v \in Selected, MaterializeRegister(r, v) PROVE ValuesInv'
  <2>1. jit'.pending = jit.pending
    BY <1>5, MaterializeRegisterKeeps
  <2>2. /\ regs' = [regs EXCEPT ![r] = ReadValue(v)]
        /\ UNCHANGED <<word, arch, undefined, entry>>
    BY <1>5 DEF MaterializeRegister
  <2>3. v[1] \in Regs /\ v[2] \in Widths
    BY BlockAssumption
  <2>4. ReadValue(v) \in Values
    <3>1. Masked(v[2], regs[v[1]]) \in OperandValues(v[2])
      BY <2>3, MaskedFits DEF ValuesInv
    <3> QED BY <2>3, <3>1, WidthsFit DEF ReadValue
  <2>5. regs' \in [Regs -> Values]
    BY <2>2, <2>4 DEF ValuesInv
  <2> QED BY <2>1, <2>2, <2>5 DEF ValuesInv, WordIsArchitectural
<1>6. ASSUME NEW cc \in Tested, Condition(cc) PROVE ValuesInv'
  <2>1. jit'.pending = jit.pending
    BY <1>6, ConditionKeeps, BlockAssumption
  <2> QED BY <1>0, <1>6, <2>1 DEF Condition
<1>7. CASE ExitBlock
  <2>1. jit'.pending = jit.pending
    BY <1>7, ExitKeeps
  <2> QED BY <1>0, <1>7, <2>1 DEF ExitBlock
<1>8. CASE UNCHANGED vars
  BY <1>0, <1>8 DEF vars
<1> QED BY <1>1, <1>2, <1>3, <1>4, <1>5, <1>6, <1>7, <1>8 DEF Next

LEMMA ValuesInit ==
    ASSUME Init
    PROVE  ValuesInv /\ CountsInv
<1>1. /\ word \in Starting /\ arch = word /\ entry = word /\ undefined = {} /\ regs \in Starts
      /\ held = [r \in Regs |-> NoLocal] /\ jit.pending = <<>> /\ copies = 0
  BY DEF Init
<1>2. word \in [Flags -> BOOLEAN] /\ regs \in [Regs -> Values]
  BY <1>1, BlockAssumption
<1>3. Len(jit.pending) = 0
  BY <1>1
<1>4. Known(held) = {}
  BY <1>1 DEF Known
<1>5. Cardinality(Known(held)) = 0
  BY <1>4, FS_EmptySet
<1> QED BY <1>1, <1>2, <1>3, <1>5, BlockAssumption
        DEF ValuesInv, CountsInv, WordIsArchitectural, Comparable

LEMMA CountsInvariance == Spec => []CountsInv
<1>1. Init => CountsInv
  BY ValuesInit
<1>2. FlagInv /\ CountsInv /\ [Next]_vars => CountsInv'
  BY CountsStep
<1> QED BY <1>1, <1>2, FlagInvariance, PTL DEF Spec

LEMMA ValuesInvariance ==
    ASSUME Arithmetic
    PROVE  Spec => []ValuesInv
<1>1. Init => ValuesInv
  BY ValuesInit
<1>2. FlagInv /\ ValuesInv /\ [Next]_vars => ValuesInv'
  BY ValuesStep
<1> QED BY <1>1, <1>2, FlagInvariance, PTL DEF Spec

\* A local has no more owners than the pending producers have inputs and the
\* registers have been materialized.
LEMMA OwnersBounded ==
    ASSUME FlagInv, CountsInv, NEW l \in Locals
    PROVE  jit.store.owners[l] \in 0 .. 3 * MaxWriters + MaxCopies
<1>1. PICK n, W, A, B, pairs :
        /\ n = Len(jit.pending) /\ W = Waiting(jit) /\ A = HandlesAt(jit.pending, W, l)
        /\ B = HeldAt(held, l) /\ pairs = (1 .. n) \X InputNames
  OBVIOUS
<1>2. n \in Nat /\ n <= MaxWriters /\ MaxWriters \in Nat /\ MaxCopies \in Nat
  <2>1. PICK pd : pd = jit.pending
    OBVIOUS
  <2>2. Len(pd) \in Nat
    BY <2>1 DEF FlagInv, Holding, JitTyped
  <2> QED BY <1>1, <2>1, <2>2, BlockAssumption DEF CountsInv
<1>3. IsFiniteSet(InputNames) /\ Cardinality(InputNames) = 3
  <2>1. IsFiniteSet({"left"}) /\ Cardinality({"left"}) = 1
    BY FS_Singleton
  <2>2. IsFiniteSet({"left"} \cup {"right"}) /\ Cardinality({"left"} \cup {"right"}) = 2
    <3>1. "right" \notin {"left"}
      OBVIOUS
    <3> QED BY <2>1, <3>1, FS_AddElement
  <2>3. PICK S : S = {"left"} \cup {"right"}
    OBVIOUS
  <2>4. IsFiniteSet(S \cup {"result"}) /\ Cardinality(S \cup {"result"}) = 3
    <3>1. "result" \notin S
      BY <2>3
    <3> QED BY <2>2, <2>3, <3>1, FS_AddElement
  <2>5. InputNames = S \cup {"result"}
    BY <2>3 DEF InputNames
  <2> QED BY <2>4, <2>5
<1>4. IsFiniteSet(pairs) /\ Cardinality(pairs) = n * 3
  <2>1. IsFiniteSet(1 .. n) /\ Cardinality(1 .. n) = n
    BY <1>2, FS_Interval
  <2>2. PICK S : S = 1 .. n
    OBVIOUS
  <2>3. IsFiniteSet(S) /\ Cardinality(S) = n /\ pairs = S \X InputNames
    BY <1>1, <2>1, <2>2
  <2>4. /\ IsFiniteSet(S \X InputNames)
        /\ Cardinality(S \X InputNames) = Cardinality(S) * Cardinality(InputNames)
    BY <1>3, <2>3, FS_Product
  <2> QED BY <1>3, <2>3, <2>4
<1>5. A \subseteq pairs
  BY <1>1 DEF HandlesAt, Waiting, Producing
<1>6. Cardinality(A) \in Nat /\ Cardinality(A) <= 3 * n
  <2>1. IsFiniteSet(A) /\ Cardinality(A) <= Cardinality(pairs)
    BY <1>4, <1>5, FS_Subset
  <2> QED BY <1>2, <1>4, <2>1, FS_CardinalityType
<1>7. Cardinality(B) \in Nat /\ Cardinality(B) <= MaxCopies
  <2>1. B \subseteq Known(held)
    BY <1>1 DEF HeldAt, Known, Locals, NoLocal
  <2>2. IsFiniteSet(B) /\ Cardinality(B) <= Cardinality(Known(held))
    BY <2>1, KnownFinite, FS_Subset
  <2>3. Cardinality(B) \in Nat /\ Cardinality(Known(held)) \in Nat
    BY <2>2, KnownFinite, FS_CardinalityType
  <2> QED BY <1>2, <2>2, <2>3 DEF CountsInv
<1>8. jit.store.owners[l] = Cardinality(A) + Cardinality(B)
  BY <1>1 DEF FlagInv, Holding, JitHanded, Handed, Counted
<1> QED BY <1>2, <1>6, <1>7, <1>8

\* In every state of every block the emitter's record is well formed: the flags
\* taken to be in the flags local are those whose source it is, and no local has
\* more owners than there are inputs and materialized registers to own it
\* (JitFlagState, ValueLocalStore).
THEOREM FlagsTyped ==
    ASSUME Arithmetic
    PROVE  Spec => []TypeOK
<1>1. FlagInv /\ ValuesInv /\ CountsInv => TypeOK
  <2> SUFFICES ASSUME FlagInv, ValuesInv, CountsInv PROVE TypeOK
    OBVIOUS
  <2>1. jit.source \in [Flags -> Incoming .. Len(jit.pending)]
    <3>1. PICK pd : pd = jit.pending
      OBVIOUS
    <3>2. (\E S : pd \in Seq(S)) /\ jit.source = [f \in Flags |-> jit.source[f]]
          /\ \A f \in Flags : jit.source[f] \in {Incoming, FlagsLocal} \cup 1 .. Len(pd)
      BY <3>1 DEF FlagInv, Holding, JitTyped, Producing
    <3>3. Len(pd) \in Nat
      BY <3>2
    <3>4. \A f \in Flags : jit.source[f] \in Incoming .. Len(pd)
      BY <3>2, <3>3 DEF Incoming, FlagsLocal
    <3> QED BY <3>1, <3>2, <3>4
  <2>2. jit.materialized = {f \in Flags : jit.source[f] = FlagsLocal}
    BY DEF FlagInv, Showing
  <2>3. {jit.local, jit.stored, word, arch, entry} \subseteq [Flags -> BOOLEAN]
    BY DEF FlagInv, Showing, WordTyped, ValuesInv
  <2>4. StoreTyped(jit.store) /\ held \in [Regs -> Locals \cup {NoLocal}]
    BY DEF FlagInv, Holding, JitHanded, Handed, StoreInv
  <2>5. jit.store.owners \in [Locals -> 0 .. 3 * MaxWriters + MaxCopies]
    BY <2>4, OwnersBounded DEF StoreTyped
  <2>6. speculative \subseteq Flags /\ undefined \subseteq Flags
    BY DEF FlagInv, PendingSpeculative, ValuesInv, Flags
  <2> QED BY <2>1, <2>2, <2>3, <2>4, <2>5, <2>6 DEF TypeOK, StoreTyped, ValuesInv
<1> QED BY <1>1, FlagInvariance, ValuesInvariance, CountsInvariance, PTL

\* The compact word, written instruction by instruction by the flag expressions of
\* flags.ts, is the architectural one, except where x86 leaves a flag undefined.
THEOREM WordExact ==
    ASSUME Arithmetic
    PROVE  Spec => []WordIsArchitectural
<1>1. ValuesInv => WordIsArchitectural
  BY DEF ValuesInv
<1> QED BY <1>1, ValuesInvariance, PTL

LEMMA CompareKindOf ==
    ASSUME NEW P \in Producers, NEW cc \in ConditionCodes,
           flagProducerConditionKind(P, cc, InputNames) \in CompareKinds
    PROVE  /\ P = "sub" /\ cc \in DOMAIN CompareKind
           /\ flagProducerConditionKind(P, cc, InputNames) = CompareKind[cc]
<1>1. PICK kind : kind = flagProducerConditionKind(P, cc, InputNames)
  OBVIOUS
<1>2. P # "logic"
  <2> SUFFICES ASSUME P = "logic" PROVE FALSE
    OBVIOUS
  <2>1. kind = LogicKind[cc]
    BY <1>1 DEF flagProducerConditionKind
  <2> QED BY <1>1, <2>1 DEF LogicKind, ConditionCodes, CompareKinds
<1>3. \A c \in DOMAIN ResultKind : ResultKind[c] \notin CompareKinds
  BY DEF ResultKind, CompareKinds
<1>4. "none" \notin CompareKinds
  BY DEF CompareKinds
<1>5. kind = IF P = "sub" /\ cc \in DOMAIN CompareKind THEN CompareKind[cc]
             ELSE IF cc \in DOMAIN ResultKind THEN ResultKind[cc] ELSE "none"
  BY <1>1, <1>2 DEF flagProducerConditionKind, InputNames
<1> QED BY <1>1, <1>3, <1>4, <1>5

\* A comparison of the operands a subtraction still waits with is answered as the
\* word says.
LEMMA ComparedAgrees ==
    ASSUME Arithmetic, FlagInv, ValuesInv, NEW cc \in ConditionCodes,
           NEW p \in ConditionSource(jit, cc),
           flagProducerConditionKind(jit.pending[p].producer, cc, InputNames) \in CompareKinds
    PROVE  DirectCondition(jit, p, cc) <=> ConditionOf(cc, word)
<1>1. PICK kind, P, w, in :
        /\ kind = flagProducerConditionKind(P, cc, InputNames)
        /\ P = jit.pending[p].producer /\ w = jit.pending[p].width
        /\ in = PendingInputs(jit, p)
  OBVIOUS
<1>2. DirectCondition(jit, p, cc) <=> emitFlagProducerCondition(kind, w, in)
  BY <1>1 DEF DirectCondition
<1>3. p \in Producing(jit) /\ \A f \in ConditionReads(cc) : jit.source[f] = p
  BY DEF ConditionSource, Producing
<1>4. ConditionReads(cc) \in SUBSET Flags /\ ConditionReads(cc) # {}
  BY DEF ConditionReads, ConditionCodes, Flags
<1>5. Referenced(jit, p)
  BY <1>3, <1>4 DEF Referenced
<1>6. in = KeptInputs(jit, p)
  BY <1>1, <1>3, <1>5, InputsKept DEF FlagInv
<1>7. P \in Producers /\ \A f \in ConditionReads(cc) : word[f] = DefineFlags(P, w, in)[f]
  BY <1>1, <1>3, <1>4, <1>6 DEF FlagInv, Showing, Shown, FlagsOf
<1>8. P = "sub" /\ cc \in DOMAIN CompareKind /\ kind = CompareKind[cc]
  BY <1>1, <1>7, CompareKindOf
<1>9. Subtracted(jit.pending[p])
  BY <1>1, <1>3, <1>8 DEF ValuesInv, Comparable, Producing
<1>10. w \in Widths /\ \E x, y \in OperandValues(w) : in = Executed("sub", <<x, y>>)
  <2>1. PICK x, y \in OperandValues(w) :
          \A n \in InputNames : jit.pending[p].inputs[n].value = Executed("sub", <<x, y>>)[n]
    BY <1>1, <1>9 DEF Subtracted
  <2>2. PICK e : e = Executed("sub", <<x, y>>)
    OBVIOUS
  <2>3. e = [n \in InputNames |-> e[n]]
    BY <2>2 DEF Executed, InputNames
  <2>4. in = [n \in InputNames |-> e[n]]
    BY <1>6, <2>1, <2>2 DEF KeptInputs
  <2>5. w \in Widths
    BY <1>1, <1>9 DEF Subtracted
  <2> QED BY <2>2, <2>3, <2>4, <2>5
<1>11. emitFlagProducerCondition(kind, w, in) <=> ConditionOf(cc, DefineFlags("sub", w, in))
  BY <1>8, <1>10 DEF Arithmetic, ComparesExact
<1>12. ConditionOf(cc, DefineFlags("sub", w, in)) <=> ConditionOf(cc, word)
  <2>1. PICK d : d = DefineFlags("sub", w, in)
    OBVIOUS
  <2>2. \A f \in ConditionReads(cc) : d[f] = word[f]
    BY <1>7, <1>8, <2>1
  <2> QED BY <2>1, <2>2, ConditionReadsOnly
<1> QED BY <1>2, <1>11, <1>12

\* Whatever mixture of sources a condition may meet - the operands of a pending
\* producer, the flags local, memory - its answer is the architectural one
\* (emitAluFlagsCondition).
THEOREM ConditionsRight ==
    ASSUME Arithmetic
    PROVE  Spec => []ConditionsAgree
<1>1. FlagInv /\ ValuesInv /\ UncomparedConditions => ConditionsAgree
  <2> SUFFICES ASSUME FlagInv, ValuesInv, UncomparedConditions, NEW cc \in ConditionCodes
               PROVE  EmitAluFlagsCondition(jit, cc) <=> ConditionOf(cc, arch)
    BY DEF ConditionsAgree
  <2>1. ConditionOf(cc, word) <=> ConditionOf(cc, arch)
    <3>1. ConditionReads(cc) \subseteq Flags \ {"AF"}
      BY DEF ConditionReads, ConditionCodes, Flags
    <3>2. \A f \in ConditionReads(cc) : word[f] = arch[f]
      BY <3>1 DEF ValuesInv, WordIsArchitectural
    <3> QED BY <3>2, ConditionReadsOnly
  <2>2. CASE \A p \in ConditionSource(jit, cc) :
               flagProducerConditionKind(jit.pending[p].producer, cc, InputNames) \notin CompareKinds
    BY <2>1, <2>2 DEF UncomparedConditions
  <2>3. CASE \E p \in ConditionSource(jit, cc) :
               flagProducerConditionKind(jit.pending[p].producer, cc, InputNames) \in CompareKinds
    <3>1. PICK p \in ConditionSource(jit, cc) :
            flagProducerConditionKind(jit.pending[p].producer, cc, InputNames) \in CompareKinds
      BY <2>3
    <3>2. PICK f \in ConditionReads(cc) : TRUE
      BY DEF ConditionReads, ConditionCodes
    <3>3. \A q \in ConditionSource(jit, cc) : q = p
      BY <3>1, <3>2 DEF ConditionSource
    <3>4. EmitAluFlagsCondition(jit, cc) <=> DirectCondition(jit, p, cc)
      <4>1. p = CHOOSE q \in ConditionSource(jit, cc) : TRUE
        BY <3>1, <3>3
      <4> QED BY <3>1, <4>1 DEF EmitAluFlagsCondition
    <3>5. DirectCondition(jit, p, cc) <=> ConditionOf(cc, word)
      BY <3>1, ComparedAgrees
    <3> QED BY <2>1, <3>4, <3>5
  <2> QED BY <2>2, <2>3
<1> QED BY <1>1, FlagInvariance, ValuesInvariance, ConditionsAnswered, PTL

=============================================================================
