-------------------------- MODULE RuntimeDecoding --------------------------
(***************************************************************************)
(* What decodeIsaBlock makes of guest memory, for any memory, any address  *)
(* and any bound on the instructions of a block: Block is a recursive      *)
(* function, so what it gives is proved by induction on that bound.        *)
(***************************************************************************)
EXTENDS Runtime, SetInduction, SequenceTheorems

\* The blocks of at most k instructions at every address, from the shorter ones.
Longer(m, k, rest) ==
    IF k = 0 THEN [a \in Address |-> Ended("fallthrough", a)]
    ELSE [a \in Address |-> BlockAt(m, a, rest)]

\* The recursion is well founded: it defines a function.
LEMMA BlocksWithinEquation ==
    ASSUME NEW m
    PROVE  BlocksWithin(m) = [k \in 0 .. MaxBlock |-> Longer(m, k, BlocksWithin(m)[k - 1])]
<1> DEFINE Solves(n, f) == f = [k \in 0 .. n |-> Longer(m, k, f[k - 1])]
           S == {n \in Nat : \E f : Solves(n, f)}
<1>1. 0 \in S
  <2> DEFINE f == [k \in 0 .. 0 |-> Longer(m, 0, 0)]
  <2>1. Solves(0, f)
    BY DEF Longer
  <2> QED BY <2>1
<1>2. ASSUME NEW n \in Nat, n \in S
      PROVE  n + 1 \in S
  <2>1. PICK f : Solves(n, f)
    BY <1>2
  <2> DEFINE g == [k \in 0 .. n + 1 |-> IF k = n + 1 THEN Longer(m, k, f[n]) ELSE f[k]]
  <2>2. ASSUME NEW k \in 0 .. n + 1
        PROVE  g[k] = Longer(m, k, g[k - 1])
    <3>1. CASE k = n + 1
      BY <3>1
    <3>2. CASE k # n + 1 /\ k # 0
      <4>1. k \in 0 .. n /\ k - 1 \in 0 .. n + 1 /\ k - 1 # n + 1
        BY <3>2
      <4>2. g[k] = f[k] /\ g[k - 1] = f[k - 1]
        BY <3>2, <4>1
      <4> QED BY <2>1, <4>1, <4>2
    <3>3. CASE k = 0
      <4>1. g[0] = f[0] /\ f[0] = Longer(m, 0, f[0 - 1])
        BY <2>1, <3>3
      <4> QED BY <3>3, <4>1 DEF Longer
    <3> QED BY <3>1, <3>2, <3>3
  <2>3. g = [k \in 0 .. n + 1 |-> g[k]]
    OBVIOUS
  <2>4. Solves(n + 1, g)
    <3> HIDE DEF g
    <3> QED BY <2>2, <2>3
  <2> HIDE DEF g, Solves
  <2> QED BY <2>4
<1>3. \E f : Solves(MaxBlock, f)
  <2> HIDE DEF S
  <2>1. MaxBlock \in S
    BY <1>1, <1>2, NatSetInduction, RuntimeAssumption
  <2> QED BY <2>1 DEF S
<1>4. BlocksWithin(m) = CHOOSE f : Solves(MaxBlock, f)
  BY DEF BlocksWithin, Longer
<1> QED BY <1>3, <1>4

Entries == [at : Address, do : Machine!Instruction]
Ends == {"fallthrough", "decodeFault", "unsupported", "control"}

\* What decoding at a makes of memory m, in at most k instructions: those
\* that follow each other from a, all but the last one straight on, the last
\* one too unless it ends the block.
Decoded(m, a, k, b) ==
    /\ b \in [path : Seq(Entries), end : Ends, next : Address]
    /\ Len(b.path) <= k
    /\ b.path = <<>> => b.next = a /\ b.end # "control"
    /\ b.path # <<>> =>
        /\ b.path[1].at = a
        /\ b.next = b.path[Len(b.path)].do.next
        /\ b.end # "control" <=> b.path[Len(b.path)].do.op \in Straight
    /\ \A i \in 1 .. Len(b.path) :
        /\ b.path[i].do = m[b.path[i].at]
        /\ b.path[i].do.op \notin {"unsupported", "unreadable"}
    /\ \A i \in 1 .. Len(b.path) - 1 :
        /\ b.path[i].do.op \in Straight
        /\ b.path[i + 1].at = b.path[i].do.next

\* A sequence with one element put before it.
LEMMA Prepended ==
    ASSUME NEW S, NEW x \in S, NEW q \in Seq(S)
    PROVE  LET p == <<x>> \o q
           IN  /\ p \in Seq(S) /\ p # <<>> /\ Len(p) = Len(q) + 1 /\ p[1] = x
               /\ \A i \in 1 .. Len(q) : p[i + 1] = q[i]
               /\ \A i \in 2 .. Len(p) : p[i] = q[i - 1]
OBVIOUS

\* A block without instructions.
LEMMA EndedDecoded ==
    ASSUME NEW m, NEW a \in Address, NEW k \in Nat, NEW why \in Ends \ {"control"}
    PROVE  Decoded(m, a, k, Ended(why, a))
BY DEF Ended, Decoded

\* A block with one instruction more: an instruction that ends it, or one put
\* before the block that follows.
LEMMA BlockAtDecoded ==
    ASSUME NEW m \in Image, NEW k \in Nat, NEW a \in Address, NEW rest,
           \A t \in Address : Decoded(m, t, k, rest[t])
    PROVE  Decoded(m, a, k + 1, BlockAt(m, a, rest))
<1> DEFINE one == [at |-> a, do |-> m[a]]
           r == rest[m[a].next]
<1>1. m \in [Address -> Machine!Instruction] /\ m[a] \in Machine!Instruction
  BY ImageAssumption
<1>2. m[a].next \in Address /\ one \in Entries
  BY <1>1 DEF Machine!Instruction, Entries
<1>3. CASE a \notin Loaded \/ m[a].op = "unreadable"
  <2>1. BlockAt(m, a, rest) = Ended("decodeFault", a)
    BY <1>3 DEF BlockAt
  <2> QED BY <2>1, EndedDecoded DEF Ends
<1>4. CASE a \in Loaded /\ m[a].op = "unsupported"
  <2>1. BlockAt(m, a, rest) = Ended("unsupported", a)
    BY <1>4 DEF BlockAt
  <2> QED BY <2>1, EndedDecoded DEF Ends
<1>5. CASE a \in Loaded /\ m[a].op \notin {"unreadable", "unsupported"} /\ m[a].op \in Straight
  <2> DEFINE b == [r EXCEPT !.path = <<one>> \o @]
  <2>1. Decoded(m, m[a].next, k, r)
    BY <1>2
  <2>2. BlockAt(m, a, rest) = b
    BY <1>5 DEF BlockAt
  <2>3. r \in [path : Seq(Entries), end : Ends, next : Address]
    BY <2>1 DEF Decoded
  <2>4. b.path = <<one>> \o r.path /\ b.end = r.end /\ b.next = r.next
    BY <2>3
  <2>5. /\ b.path \in Seq(Entries) /\ b.path # <<>> /\ Len(b.path) = Len(r.path) + 1
        /\ b.path[1] = one
        /\ \A i \in 1 .. Len(r.path) : b.path[i + 1] = r.path[i]
        /\ \A i \in 2 .. Len(b.path) : b.path[i] = r.path[i - 1]
    BY <1>2, <2>3, <2>4, Prepended
  <2>6. b \in [path : Seq(Entries), end : Ends, next : Address]
    BY <2>3, <2>4, <2>5
  <2>7. Len(r.path) \in Nat /\ Len(r.path) <= k
    <3> HIDE DEF b, r, one
    <3>1. Len(r.path) <= k
      BY <2>1 DEF Decoded
    <3> QED BY <2>3, <3>1
  <2> HIDE DEF b, r, one
  <2>8. /\ b.path[1].at = a
        /\ b.next = b.path[Len(b.path)].do.next
        /\ b.end # "control" <=> b.path[Len(b.path)].do.op \in Straight
    <3>1. CASE r.path = <<>>
      BY <1>5, <2>1, <2>4, <2>5, <3>1 DEF Decoded, one
    <3>2. CASE r.path # <<>>
      <4>1. b.path[Len(b.path)] = r.path[Len(r.path)]
        BY <2>3, <2>5, <2>7, <3>2
      <4> QED BY <2>1, <2>4, <2>5, <3>2, <4>1 DEF Decoded, one
    <3> QED BY <3>1, <3>2
  <2>9. ASSUME NEW i \in 1 .. Len(b.path)
        PROVE  /\ b.path[i].do = m[b.path[i].at]
               /\ b.path[i].do.op \notin {"unsupported", "unreadable"}
    <3>1. CASE i = 1
      BY <1>5, <2>5, <3>1 DEF one
    <3>2. CASE i # 1
      <4>1. i \in 2 .. Len(b.path) /\ i - 1 \in 1 .. Len(r.path)
        BY <2>5, <2>7, <3>2
      <4>2. b.path[i] = r.path[i - 1]
        BY <2>5, <4>1
      <4> QED BY <2>1, <4>1, <4>2 DEF Decoded
    <3> QED BY <3>1, <3>2
  <2>10. ASSUME NEW i \in 1 .. Len(b.path) - 1
         PROVE  /\ b.path[i].do.op \in Straight
                /\ b.path[i + 1].at = b.path[i].do.next
    <3>1. CASE i = 1
      <4>1. b.path[2] = r.path[1] /\ r.path # <<>>
        BY <2>3, <2>5, <2>7, <3>1
      <4> QED BY <1>5, <2>1, <2>5, <3>1, <4>1 DEF Decoded, one
    <3>2. CASE i # 1
      <4>1. /\ i - 1 \in 1 .. Len(r.path) - 1
            /\ b.path[i] = r.path[i - 1] /\ b.path[i + 1] = r.path[(i - 1) + 1]
        BY <2>5, <2>7, <3>2
      <4> QED BY <2>1, <4>1 DEF Decoded
    <3> QED BY <3>1, <3>2
  <2> QED BY <2>2, <2>5, <2>6, <2>7, <2>8, <2>9, <2>10 DEF Decoded
<1>6. CASE a \in Loaded /\ m[a].op \notin {"unreadable", "unsupported"} /\ m[a].op \notin Straight
  <2>1. BlockAt(m, a, rest) = [path |-> <<one>>, end |-> "control", next |-> m[a].next]
    BY <1>6 DEF BlockAt
  <2>2. <<one>> \in Seq(Entries) /\ Len(<<one>>) = 1 /\ <<one>>[1] = one
    BY <1>2
  <2> HIDE DEF one
  <2> QED BY <1>2, <1>6, <2>1, <2>2 DEF Decoded, Ends, one
<1> QED BY <1>3, <1>4, <1>5, <1>6

(* decodeIsaBlock gives consecutive instructions of the memory it reads,    *)
(* for every memory, address and bound, and stops where it says it does: by *)
(* induction on the number of instructions a block may have.                *)
THEOREM BlockDecoded ==
    ASSUME NEW m \in Image, NEW a \in Address
    PROVE  Decoded(m, a, MaxBlock, Block(m, a))
<1> DEFINE S == {k \in Nat : k <= MaxBlock =>
                    \A t \in Address : Decoded(m, t, k, BlocksWithin(m)[k][t])}
<1>1. \A k \in 0 .. MaxBlock : BlocksWithin(m)[k] = Longer(m, k, BlocksWithin(m)[k - 1])
  BY BlocksWithinEquation
<1>2. 0 \in S
  <2>1. BlocksWithin(m)[0] = Longer(m, 0, BlocksWithin(m)[0 - 1])
    BY <1>1, RuntimeAssumption
  <2>2. \A t \in Address : BlocksWithin(m)[0][t] = Ended("fallthrough", t)
    BY <2>1 DEF Longer
  <2> QED BY <2>2, EndedDecoded DEF Ends
<1>3. ASSUME NEW k \in Nat, k \in S
      PROVE  k + 1 \in S
  <2> SUFFICES ASSUME k + 1 <= MaxBlock, NEW t \in Address
               PROVE  Decoded(m, t, k + 1, BlocksWithin(m)[k + 1][t])
    OBVIOUS
  <2>1. BlocksWithin(m)[k + 1][t] = BlockAt(m, t, BlocksWithin(m)[k])
    <3>1. k + 1 \in 0 .. MaxBlock /\ (k + 1) - 1 = k
      BY RuntimeAssumption
    <3>2. BlocksWithin(m)[k + 1] = Longer(m, k + 1, BlocksWithin(m)[(k + 1) - 1])
      BY <1>1, <3>1
    <3> QED BY <3>1, <3>2 DEF Longer
  <2>2. \A u \in Address : Decoded(m, u, k, BlocksWithin(m)[k][u])
    BY <1>3, RuntimeAssumption
  <2> QED BY <2>1, <2>2, BlockAtDecoded
<1>4. MaxBlock \in S
  <2> HIDE DEF S
  <2> QED BY <1>2, <1>3, NatSetInduction, RuntimeAssumption
<1> QED BY <1>4 DEF Block

-----------------------------------------------------------------------------
\* The contents the cache compiles.

\* Every content is the block of some memory at some address.
LEMMA ContentDecoded ==
    ASSUME NEW b \in Content
    PROVE  \E m \in Image, e \in Address : b = Blocks[m][e] /\ Decoded(m, e, MaxBlock, b)
BY BlockDecoded DEF Content, Blocks

\* A block that has instructions has a last one.
LEMMA LastEntry ==
    ASSUME NEW m \in Image, NEW e, NEW b, Decoded(m, e, MaxBlock, b), b.path # <<>>
    PROVE  /\ Len(b.path) \in 1 .. MaxBlock
           /\ b.path[Len(b.path)] \in Entries
           /\ b.path[Len(b.path)].do \in Machine!Instruction
<1>1. b.path \in Seq(Entries) /\ Len(b.path) <= MaxBlock
  BY DEF Decoded
<1>2. Len(b.path) \in Nat /\ Len(b.path) # 0
  BY <1>1
<1>3. Len(b.path) \in 1 .. MaxBlock
  BY <1>1, <1>2, RuntimeAssumption
<1>4. b.path[Len(b.path)] \in Entries
  BY <1>1, <1>3
<1> QED BY <1>3, <1>4 DEF Entries

\* A block ends where its last instruction can go: the targets of its links
\* are addresses.
LEMMA StaticTargetsType ==
    ASSUME NEW m \in Image, NEW e, NEW b, Decoded(m, e, MaxBlock, b)
    PROVE  StaticTargets(b) \in SUBSET Address
<1>1. b.next \in Address
  BY DEF Decoded
<1>2. b.end = "control" => b.path # <<>>
  BY DEF Decoded
<1>3. CASE b.end # "control"
  BY <1>1, <1>3 DEF StaticTargets
<1>4. CASE b.end = "control"
  BY <1>2, <1>4, LastEntry DEF StaticTargets, Machine!Instruction
<1> QED BY <1>3, <1>4

\* What the cache is told of a content.
LEMMA DecodeType ==
    Decode \in [Content -> [kind : {"block", "empty", "uncompilable", "fault"},
                            targets : SUBSET Address]]
<1> SUFFICES ASSUME NEW b \in Content
             PROVE  /\ Kind(b) \in {"block", "empty", "uncompilable", "fault"}
                    /\ StaticTargets(b) \in SUBSET Address
  BY DEF Decode
<1> QED BY ContentDecoded, StaticTargetsType DEF Kind

\* What the cache reads of a memory.
LEMMA BlocksType == \A m \in Image : Blocks[m] \in [Address -> Content]
BY DEF Blocks, Content

\* What is compiled as a block has an instruction, the one at its entry.
LEMMA BlockHasEntry ==
    ASSUME NEW m \in Image, NEW e \in Address, Decode[Blocks[m][e]].kind = "block"
    PROVE  LET b == Blocks[m][e]
           IN  Decoded(m, e, MaxBlock, b) /\ b.path # <<>> /\ b.path[1].at = e
<1>1. Blocks[m][e] \in Content /\ Decoded(m, e, MaxBlock, Blocks[m][e])
  BY BlockDecoded, BlocksType DEF Blocks
<1>2. Kind(Blocks[m][e]) = "block"
  BY <1>1 DEF Decode
<1>3. Blocks[m][e].path # <<>>
  BY <1>2 DEF Kind
<1> QED BY <1>1, <1>3 DEF Decoded
=============================================================================
