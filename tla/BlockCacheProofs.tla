-------------------------- MODULE BlockCacheProofs --------------------------
(***************************************************************************)
(* Proofs about BlockCache for any set of entries, any code and any number *)
(* of compiled modules.                                                    *)
(*                                                                         *)
(* LinkCoherence is not inductive alone: invalidate and compile reach the  *)
(* tables that jump to an entry only through the reverse index, so the     *)
(* index must be exact, and dropping one block's table from the index must *)
(* not drop another's, so no two entries share a handle.                   *)
(***************************************************************************)
EXTENDS BlockCache, TLAPS

BlocksDistinct ==
    \A d, e \in Eip : blocks[d] # None /\ blocks[d] = blocks[e] => d = e

\* A cached handle has been compiled, from what some memory holds at its
\* entry, and its table was made from its body.
BlocksCompiled ==
    \A e \in Eip : blocks[e] # None =>
        /\ body[blocks[e]] # None
        /\ Decode[body[blocks[e]]].kind = "block"
        /\ \E m \in Images : body[blocks[e]] = m[e]
        /\ targets[blocks[e]] = Decode[body[blocks[e]]].targets \ {e}

\* A cached block is current unless its entry was written since.
BlocksCurrent ==
    \A e \in Eip : blocks[e] # None /\ e \notin written => body[blocks[e]] = code[e]

CacheInv ==
    /\ TypeOK
    /\ code \in Images
    /\ BlocksDistinct
    /\ BlocksCompiled
    /\ BlocksCurrent
    /\ DependentsExact
    /\ LinkCoherence

-----------------------------------------------------------------------------
\* What the helpers return.

LEMMA RegisterTableType ==
    ASSUME dependents \in [Eip -> SUBSET Handle], NEW h \in Handle, NEW T \in SUBSET Eip
    PROVE  RegisterTable(h, T) \in [Eip -> SUBSET Handle]
BY DEF RegisterTable

LEMMA UnregisterTableType ==
    ASSUME dependents \in [Eip -> SUBSET Handle], NEW h \in Handle
    PROVE  UnregisterTable(h) \in [Eip -> SUBSET Handle]
BY DEF UnregisterTable

LEMMA NewTableType ==
    ASSUME NEW T \in SUBSET Eip, NEW m \in [Eip -> Handle \cup {None}]
    PROVE  NewTable(T, m) \in [Eip -> Handle \cup {Stub}]
BY DEF NewTable

LEMMA SetInDependentsType ==
    ASSUME NEW e \in Eip, NEW f \in Handle \cup {Stub},
           NEW table \in [Handle -> [Eip -> Handle \cup {Stub}]], NEW deps
    PROVE  SetInDependents(e, f, table, deps) \in [Handle -> [Eip -> Handle \cup {Stub}]]
BY DEF SetInDependents

LEMMA LinkTargetsType ==
    ASSUME TypeOK, NEW e \in Eip
    PROVE  LinkTargets(e) \in SUBSET Eip
BY DecodeAssumption DEF LinkTargets, TypeOK

\* The cached handles after one entry was filled, emptied, or all were.
LEMMA CachedAfterCompile ==
    ASSUME TypeOK, NEW e \in Eip, NEW h \in Handle, blocks[e] = None,
           blocks' = [blocks EXCEPT ![e] = h]
    PROVE  Cached' = Cached \cup {h}
BY DistinctAssumption DEF TypeOK, Cached

LEMMA CachedAfterInvalidate ==
    ASSUME TypeOK, BlocksDistinct, NEW e \in Eip, blocks[e] # None,
           blocks' = [blocks EXCEPT ![e] = None]
    PROVE  Cached' = Cached \ {blocks[e]}
BY DEF TypeOK, Cached, BlocksDistinct

-----------------------------------------------------------------------------
\* The initial states.
LEMMA InitInv == Init => CacheInv
BY ImagesAssumption DEF Init, CacheInv, TypeOK, BlocksDistinct, BlocksCompiled, BlocksCurrent,
       DependentsExact, LinkCoherence, Cached

\* A new block: its table is linked to the map, the others to it.
LEMMA CompileInv ==
    ASSUME CacheInv, NEW e \in Eip, NEW h \in Handle, Compile(e, h)
    PROVE  CacheInv'
<1> DEFINE T == LinkTargets(e)
<1>1. /\ answer' = h
      /\ body' = [body EXCEPT ![h] = code[e]]
      /\ targets' = [targets EXCEPT ![h] = T]
      /\ blocks' = [blocks EXCEPT ![e] = h]
      /\ dependents' = RegisterTable(h, T)
      /\ slot' = SetInDependents(e, h,
                     [slot EXCEPT ![h] = NewTable(T, blocks')], dependents')
  BY DEF Compile
<1>2. /\ blocks[e] = None
      /\ written' = written \ {e}
      /\ code' = code
  BY DEF Compile
<1>3. TypeOK
  BY DEF CacheInv
<1>4. T \in SUBSET Eip /\ e \notin T
  BY <1>3, LinkTargetsType DEF LinkTargets
<1>5. h \notin Cached
  BY DEF Compile, Free
<1>6. Cached' = Cached \cup {h}
  BY <1>1, <1>2, <1>3, CachedAfterCompile
<1>7. TypeOK'
  <2>1. blocks' \in [Eip -> Handle \cup {None}]
    BY <1>1, <1>3 DEF TypeOK
  <2>2. slot' \in [Handle -> [Eip -> Handle \cup {Stub}]]
    <3>1. NewTable(T, blocks') \in [Eip -> Handle \cup {Stub}]
      BY <1>4, <2>1, NewTableType
    <3>2. [slot EXCEPT ![h] = NewTable(T, blocks')]
            \in [Handle -> [Eip -> Handle \cup {Stub}]]
      BY <1>3, <3>1 DEF TypeOK
    <3> QED BY <1>1, <3>2, SetInDependentsType
  <2>3. dependents' \in [Eip -> SUBSET Handle]
    BY <1>1, <1>3, <1>4, RegisterTableType DEF TypeOK
  <2> QED
    BY <1>1, <1>2, <1>3, <1>4, <2>1, <2>2, <2>3 DEF TypeOK
<1>8. BlocksDistinct'
  BY <1>1, <1>2, <1>3, <1>5 DEF CacheInv, BlocksDistinct, TypeOK, Cached
<1>9. BlocksCompiled'
  <2> SUFFICES ASSUME NEW d \in Eip, blocks'[d] # None
               PROVE  /\ body'[blocks'[d]] # None
                      /\ Decode[body'[blocks'[d]]].kind = "block"
                      /\ \E m \in Images : body'[blocks'[d]] = m[d]
                      /\ targets'[blocks'[d]] = Decode[body'[blocks'[d]]].targets \ {d}
    BY DEF BlocksCompiled
  <2>1. CASE d = e
    <3>1. /\ body'[blocks'[d]] = code[e] /\ code[e] \in Code
          /\ targets'[blocks'[d]] = T
      BY <1>1, <1>3, <2>1 DEF TypeOK
    <3> QED BY <2>1, <3>1, DistinctAssumption DEF CacheInv, Compile, LinkTargets
  <2>2. CASE d # e
    <3>1. blocks'[d] = blocks[d] /\ blocks[d] # h /\ blocks[d] # None
      BY <1>1, <1>3, <1>5, <2>2 DEF TypeOK, Cached
    <3>2. body'[blocks'[d]] = body[blocks[d]] /\ targets'[blocks'[d]] = targets[blocks[d]]
      BY <1>1, <1>3, <3>1 DEF TypeOK
    <3> QED BY <3>1, <3>2 DEF CacheInv, BlocksCompiled
  <2> QED BY <2>1, <2>2
<1>10. BlocksCurrent'
  BY <1>1, <1>2, <1>3, <1>5 DEF CacheInv, BlocksCurrent, TypeOK, Cached
<1>11. DependentsExact'
  <2> SUFFICES ASSUME NEW t \in Eip
               PROVE  dependents'[t] = {g \in Cached' : t \in targets'[g]}
    BY DEF DependentsExact
  <2>1. dependents[t] = {g \in Cached : t \in targets[g]}
    BY DEF CacheInv, DependentsExact
  <2>2. \A g \in Cached : targets'[g] = targets[g]
    BY <1>1, <1>3, <1>5 DEF TypeOK, Cached
  <2>3. targets'[h] = T
    BY <1>1, <1>3 DEF TypeOK
  <2>4. dependents'[t] = dependents[t] \cup (IF t \in T THEN {h} ELSE {})
    BY <1>1 DEF RegisterTable
  <2> QED BY <1>5, <1>6, <2>1, <2>2, <2>3, <2>4
<1>12. LinkCoherence'
  <2> SUFFICES ASSUME NEW g \in Cached', NEW t \in targets'[g]
               PROVE  slot'[g][t] = IF blocks'[t] = None THEN Stub ELSE blocks'[t]
    BY DEF LinkCoherence
  <2>0. g \in Handle /\ t \in Eip
    BY <1>1, <1>3, <1>4, <1>6 DEF TypeOK, Cached
  <2>1. dependents'[e] = {f \in Cached' : e \in targets'[f]}
    BY <1>11 DEF DependentsExact
  <2> DEFINE S == [slot EXCEPT ![h] = NewTable(T, blocks')]
  <2>2. slot'[g] = IF g \in dependents'[e] THEN [S[g] EXCEPT ![e] = h] ELSE S[g]
    BY <1>1, <2>0 DEF SetInDependents
  <2>3. CASE g = h
    <3>1. t \in T
      BY <1>1, <1>3, <2>3 DEF TypeOK
    <3>2. slot'[g] = NewTable(T, blocks')
      BY <1>1, <1>3, <1>4, <2>1, <2>2, <2>3 DEF TypeOK
    <3> QED BY <2>0, <3>1, <3>2 DEF NewTable
  <2>4. CASE g # h
    <3>1. g \in Cached /\ t \in targets[g] /\ S[g] = slot[g]
      BY <1>1, <1>3, <1>6, <2>0, <2>4 DEF TypeOK
    <3>2. slot[g][t] = IF blocks[t] = None THEN Stub ELSE blocks[t]
      BY <3>1 DEF CacheInv, LinkCoherence
    <3>3. CASE t = e
      <4>1. slot'[g] = [slot[g] EXCEPT ![e] = h]
        BY <2>1, <2>2, <3>1, <3>3
      <4> QED BY <1>1, <1>3, <2>0, <3>3, <4>1, DistinctAssumption DEF TypeOK
    <3>4. CASE t # e
      <4>1. slot'[g][t] = slot[g][t]
        BY <1>3, <2>0, <2>2, <3>1, <3>4 DEF TypeOK
      <4> QED BY <1>1, <1>3, <2>0, <3>2, <3>4, <4>1 DEF TypeOK
    <3> QED BY <3>3, <3>4
  <2> QED BY <2>3, <2>4
<1> QED BY <1>2, <1>7, <1>8, <1>9, <1>10, <1>11, <1>12 DEF CacheInv

\* The block leaves, and the tables that jump to it get their stubs back.
LEMMA InvalidateInv ==
    ASSUME CacheInv, NEW e \in Eip, Invalidate(e)
    PROVE  CacheInv'
<1> DEFINE h == blocks[e]
<1>1. /\ h # None
      /\ blocks' = [blocks EXCEPT ![e] = None]
      /\ dependents' = UnregisterTable(h)
      /\ slot' = SetInDependents(e, Stub, slot, dependents')
      /\ written' = written \ {e}
      /\ UNCHANGED <<code, body, targets, answer>>
  BY DEF Invalidate
<1>2. TypeOK
  BY DEF CacheInv
<1>3. h \in Handle
  BY <1>1, <1>2 DEF TypeOK
<1>4. Cached' = Cached \ {h}
  BY <1>1, <1>2, CachedAfterInvalidate DEF CacheInv
<1>5. TypeOK'
  BY <1>1, <1>2, <1>3, UnregisterTableType, SetInDependentsType DEF TypeOK
<1>6. /\ BlocksDistinct'
      /\ BlocksCompiled'
      /\ BlocksCurrent'
  BY <1>1, <1>2
  DEF CacheInv, TypeOK, BlocksDistinct, BlocksCompiled, BlocksCurrent
<1>7. DependentsExact'
  BY <1>1, <1>4 DEF CacheInv, DependentsExact, UnregisterTable
<1>8. LinkCoherence'
  <2> SUFFICES ASSUME NEW g \in Cached', NEW t \in targets'[g]
               PROVE  slot'[g][t] = IF blocks'[t] = None THEN Stub ELSE blocks'[t]
    BY DEF LinkCoherence
  <2>1. g \in Cached /\ g \in Handle /\ t \in targets[g] /\ t \in Eip
    BY <1>1, <1>2, <1>4 DEF TypeOK, Cached
  <2>2. slot[g][t] = IF blocks[t] = None THEN Stub ELSE blocks[t]
    BY <2>1 DEF CacheInv, LinkCoherence
  <2>3. dependents'[e] = {f \in Cached' : e \in targets'[f]}
    BY <1>7 DEF DependentsExact
  <2>4. slot'[g] = IF g \in dependents'[e] THEN [slot[g] EXCEPT ![e] = Stub] ELSE slot[g]
    BY <1>1, <2>1 DEF SetInDependents
  <2>5. CASE t = e
    BY <1>1, <1>2, <2>1, <2>3, <2>4, <2>5 DEF TypeOK
  <2>6. CASE t # e
    <3>1. slot'[g][t] = slot[g][t]
      BY <1>2, <2>1, <2>4, <2>6 DEF TypeOK
    <3> QED BY <1>1, <1>2, <2>1, <2>2, <2>6, <3>1 DEF TypeOK
  <2> QED BY <2>5, <2>6
<1> QED BY <1>1, <1>5, <1>6, <1>7, <1>8 DEF CacheInv

\* Every step.  Only Compile and Invalidate move links.
LEMMA StepInv == CacheInv /\ [Next]_vars => CacheInv'
<1> SUFFICES ASSUME CacheInv, [Next]_vars
             PROVE  CacheInv'
  OBVIOUS
<1> USE DEF CacheInv, TypeOK, BlocksDistinct, BlocksCompiled, BlocksCurrent,
            DependentsExact, LinkCoherence, Cached
<1>1. ASSUME NEW e \in Eip, Hit(e)
      PROVE  CacheInv'
  <2>1. answer' \in Handle
    BY <1>1 DEF Hit
  <2>2. UNCHANGED <<code, blocks, body, targets, slot, dependents, written>>
    BY <1>1 DEF Hit
  <2>3. TypeOK' /\ code' \in Images
    BY <2>1, <2>2
  <2> QED BY <2>2, <2>3
<1>2. ASSUME NEW e \in Eip, NEW h \in Handle, Compile(e, h)
      PROVE  CacheInv'
  BY <1>2, CompileInv
<1>3. ASSUME NEW e \in Eip, Unavailable(e)
      PROVE  CacheInv'
  BY <1>3 DEF Unavailable
<1>4. ASSUME NEW e \in Eip, DecodeError(e)
      PROVE  CacheInv'
  BY <1>4 DEF DecodeError
<1>5. ASSUME NEW e \in Eip, Invalidate(e)
      PROVE  CacheInv'
  BY <1>5, InvalidateInv
<1>6. CASE Clear
  BY <1>6 DEF Clear
<1>7. ASSUME NEW image \in Images, Write(image)
      PROVE  CacheInv'
  <2>1. image \in [Eip -> Code]
    BY ImagesAssumption
  <2> QED BY <1>7, <2>1 DEF Write
<1>8. CASE UNCHANGED vars
  BY <1>8 DEF vars
<1> QED BY <1>1, <1>2, <1>3, <1>4, <1>5, <1>6, <1>7, <1>8 DEF Next, GetOrCompile

(* The inductive invariant holds in every reachable state.                  *)
THEOREM Invariance == Spec => []CacheInv
<1> QED BY InitInv, StepInv, PTL DEF Spec

-----------------------------------------------------------------------------
(* The variables keep their types: in particular no slot is ever undefined. *)
THEOREM TypeCorrect == Spec => []TypeOK
<1>1. CacheInv => TypeOK
  BY DEF CacheInv
<1> QED BY <1>1, Invariance, PTL

(* For every set of entries and every history of compiles, invalidates,     *)
(* clears and writes, a jump of a cached block lands on the block cached    *)
(* under its target, or exits to the host.                                  *)
THEOREM LinksCoherent == Spec => []LinkCoherence
<1>1. CacheInv => LinkCoherence
  BY DEF CacheInv
<1> QED BY <1>1, Invariance, PTL

(* The reverse index misses no table that needs a later link or stub, and   *)
(* keeps none of a forgotten block.                                         *)
THEOREM ReverseIndexExact == Spec => []DependentsExact
<1>1. CacheInv => DependentsExact
  BY DEF CacheInv
<1> QED BY <1>1, Invariance, PTL

(* Linked jumps run the code their target holds, up to the writes nobody    *)
(* followed with an invalidate.                                             *)
THEOREM LinkedJumpsCurrent == Spec => []LinkedJumpsRunCurrentCode
<1>1. CacheInv => LinkedJumpsRunCurrentCode
  <2> SUFFICES ASSUME CacheInv, NEW h \in Cached, NEW t \in targets[h],
                      slot[h][t] # Stub, t \notin written
               PROVE  body[slot[h][t]] = code[t]
    BY DEF LinkedJumpsRunCurrentCode
  <2>1. t \in Eip
    BY DEF CacheInv, TypeOK, Cached
  <2>2. blocks[t] # None /\ slot[h][t] = blocks[t]
    BY DEF CacheInv, LinkCoherence
  <2> QED BY <2>1, <2>2 DEF CacheInv, BlocksCurrent
<1> QED BY <1>1, Invariance, PTL

(* Once a block is forgotten, no step touches its table again.              *)
THEOREM RetiredFrozen == Spec => RetiredTablesAreFrozen
<1> DEFINE Frozen == \A h \in Handle : h \notin Cached \cup Cached' => slot'[h] = slot[h]
<1>1. CacheInv /\ [Next]_vars => [Frozen]_vars
  <2> SUFFICES ASSUME CacheInv, Next, NEW h \in Handle, h \notin Cached, h \notin Cached'
               PROVE  slot'[h] = slot[h]
    OBVIOUS
  <2>1. TypeOK /\ \A t \in Eip : h \notin dependents[t]
    BY DEF CacheInv, DependentsExact
  <2>2. ASSUME NEW e \in Eip, NEW g \in Handle, Compile(e, g)
        PROVE  slot'[h] = slot[h]
    <3>1. /\ dependents' = RegisterTable(g, LinkTargets(e))
          /\ slot' = SetInDependents(e, g,
                 [slot EXCEPT ![g] = NewTable(LinkTargets(e), blocks')], dependents')
      BY <2>2 DEF Compile
    <3>2. g # h
      BY <2>1, <2>2, CachedAfterCompile DEF Compile
    <3>3. h \notin dependents'[e]
      BY <2>1, <3>1, <3>2 DEF RegisterTable
    <3> QED BY <2>1, <3>1, <3>2, <3>3 DEF SetInDependents, TypeOK
  <2>3. ASSUME NEW e \in Eip, Invalidate(e)
        PROVE  slot'[h] = slot[h]
    <3>1. h \notin dependents'[e]
      BY <2>1, <2>3 DEF Invalidate, UnregisterTable
    <3> QED BY <2>3, <3>1 DEF Invalidate, SetInDependents
  <2>4. CASE Clear
    BY <2>4 DEF Clear
  <2>5. ASSUME NEW e \in Eip, Hit(e) \/ Unavailable(e) \/ DecodeError(e)
        PROVE  slot'[h] = slot[h]
    BY <2>5 DEF Hit, Unavailable, DecodeError
  <2>6. ASSUME NEW image \in Images, Write(image)
        PROVE  slot'[h] = slot[h]
    BY <2>6 DEF Write
  <2> QED BY <2>2, <2>3, <2>4, <2>5, <2>6 DEF Next, GetOrCompile
<1> QED BY <1>1, Invariance, PTL DEF Spec, RetiredTablesAreFrozen

-----------------------------------------------------------------------------
\* The refinement.  The slots of the cached handles are the landing places
\* that LinkedBlocks computes from the map, so a step refines as soon as its
\* effect on the map does.

LEMMA SlotsAreLandings == CacheInv => landingCode = Promised!Landing(cachedCode)
<1> SUFFICES ASSUME CacheInv, NEW e \in Eip, NEW t \in Eip
             PROVE  landingCode[e][t] = Promised!Landing(cachedCode)[e][t]
  BY DEF landingCode, Promised!Landing
<1> DEFINE h == blocks[e]
<1>1. TypeOK
  BY DEF CacheInv
<1>2. CASE h = None
  BY <1>2 DEF landingCode, cachedCode, Promised!Landing, Promised!LinksTo
<1>3. CASE h # None
  <2>1. h \in Handle /\ h \in Cached /\ body[h] # None /\ cachedCode[e] = body[h]
    BY <1>1, <1>3 DEF TypeOK, Cached, CacheInv, BlocksCompiled, cachedCode
  <2>2. t \in targets[h] <=> Promised!LinksTo(cachedCode, e, t)
    BY <1>3, <2>1
    DEF CacheInv, BlocksCompiled, Promised!LinksTo, Promised!TargetsOf
  <2>3. CASE t \notin targets[h]
    BY <2>2, <2>3 DEF landingCode, Promised!Landing
  <2>4. CASE t \in targets[h]
    <3>1. slot[h][t] = IF blocks[t] = None THEN Stub ELSE blocks[t]
      BY <2>1, <2>4 DEF CacheInv, LinkCoherence
    <3>2. blocks[t] # None => blocks[t] # Stub /\ cachedCode[t] = body[blocks[t]]
                              /\ body[blocks[t]] # None
      BY <1>1, DistinctAssumption DEF TypeOK, cachedCode, CacheInv, BlocksCompiled
    <3>3. blocks[t] = None => cachedCode[t] = None
      BY DEF cachedCode
    <3>4. landingCode[e][t] = IF slot[h][t] = Stub THEN Stub ELSE body[slot[h][t]]
      BY <1>3, <2>4 DEF landingCode
    <3>5. Promised!Landing(cachedCode)[e][t]
            = IF cachedCode[t] = None THEN Stub ELSE cachedCode[t]
      BY <2>2, <2>4 DEF Promised!Landing
    <3> QED BY <3>1, <3>2, <3>3, <3>4, <3>5
  <2> QED BY <2>3, <2>4
<1> QED BY <1>2, <1>3

\* A step that leaves the cached handles and their code alone leaves the
\* map alone.
LEMMA MapUnchanged ==
    ASSUME UNCHANGED <<blocks, body>>
    PROVE  cachedCode' = cachedCode
BY DEF cachedCode

LEMMA StepRefines ==
    ASSUME CacheInv, CacheInv', [Next]_vars
    PROVE  [Promised!Next]_(Promised!vars)
<1>1. /\ landingCode = Promised!Landing(cachedCode)
      /\ (landingCode)' = Promised!Landing(cachedCode')
  <2>1. CacheInv => landingCode = Promised!Landing(cachedCode)
    BY SlotsAreLandings
  <2>2. CacheInv' => (landingCode = Promised!Landing(cachedCode))'
    BY SlotsAreLandings, PTL
  <2>3. (Promised!Landing(cachedCode))' = Promised!Landing(cachedCode')
    BY DEF Promised!Landing, Promised!LinksTo, Promised!TargetsOf
  <2> QED BY <2>1, <2>2, <2>3
<1>2. TypeOK
  BY DEF CacheInv
<1>3. ASSUME NEW e \in Eip, NEW h \in Handle, Compile(e, h)
      PROVE  Promised!Add(e)
  <2>1. /\ h \notin Cached
        /\ body' = [body EXCEPT ![h] = code[e]]
        /\ blocks' = [blocks EXCEPT ![e] = h]
    BY <1>3 DEF Compile, Free
  <2>2. blocks[e] = None /\ Decode[code[e]].kind = "block" /\ code' = code
    BY <1>3 DEF Compile
  <2>3. \A d \in Eip : blocks[d] # None => blocks[d] # h
    BY <2>1 DEF Cached
  <2>4. cachedCode' = [cachedCode EXCEPT ![e] = code[e]]
    BY <1>2, <2>1, <2>3, DistinctAssumption DEF TypeOK, cachedCode
  <2>5. cachedCode[e] = None
    BY <2>2 DEF cachedCode
  <2> QED BY <1>1, <2>2, <2>4, <2>5 DEF Promised!Add, Promised!Recache
<1>4. ASSUME NEW e \in Eip, Invalidate(e)
      PROVE  Promised!Drop(e)
  <2>1. blocks' = [blocks EXCEPT ![e] = None] /\ body' = body /\ code' = code
    BY <1>4 DEF Invalidate
  <2>2. cachedCode' = [cachedCode EXCEPT ![e] = None]
    BY <1>2, <2>1 DEF TypeOK, cachedCode
  <2> QED BY <1>1, <2>1, <2>2 DEF Promised!Drop, Promised!Recache
<1>5. CASE Clear
  <2>1. cachedCode' = [e \in Eip |-> None] /\ code' = code
    BY <1>5 DEF Clear, cachedCode
  <2>2. Promised!DropAll
    BY <1>1, <2>1 DEF Promised!DropAll, Promised!Recache
  <2> QED BY <2>2 DEF Promised!Next
<1>6. ASSUME NEW image \in Images, Write(image)
      PROVE  Promised!Write(image)
  <2>1. cachedCode' = cachedCode
    BY <1>6, MapUnchanged DEF Write
  <2>2. (landingCode)' = landingCode
    BY <1>6 DEF Write, landingCode
  <2> QED BY <1>6, <2>1, <2>2 DEF Write, Promised!Write
<1>7. ASSUME UNCHANGED <<code, blocks, body, targets, slot>>
      PROVE  UNCHANGED Promised!vars
  BY <1>7, MapUnchanged DEF landingCode, Promised!vars
<1> QED BY <1>3, <1>4, <1>5, <1>6, <1>7
        DEF Next, vars, GetOrCompile, Hit, Unavailable, DecodeError, Promised!Next

(* The cache, its tables and its reverse index implement LinkedBlocks: a    *)
(* jump of a cached block always lands on what is cached at its target.     *)
THEOREM PromiseKept == Spec => Promise
<1>1. Init => Promised!Init
  <2> SUFFICES ASSUME Init
               PROVE  Promised!Init
    OBVIOUS
  <2>1. cachedCode = [e \in Eip |-> None]
    BY DEF Init, cachedCode
  <2>2. landingCode = Promised!Landing(cachedCode)
    BY InitInv, SlotsAreLandings
  <2> QED BY <2>1, <2>2 DEF Init, Promised!Init
<1>2. CacheInv /\ CacheInv' /\ [Next]_vars => [Promised!Next]_(Promised!vars)
  BY StepRefines
<1> QED BY <1>1, <1>2, Invariance, PTL DEF Spec, Promise, Promised!Spec
=============================================================================
