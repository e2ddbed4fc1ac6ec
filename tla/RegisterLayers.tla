--------------------------- MODULE RegisterLayers ---------------------------
(***************************************************************************)
(* What the operators of RegisterState do, for any registers and blocks.   *)
(*                                                                         *)
(* A register has two layers, the committed one over the CPU state and the *)
(* pending one over the committed; a layer is a known prefix over a        *)
(* mutable cell.  Everything the code generator answers is right as long   *)
(* as the cells are private: then a write through a cell changes one layer *)
(* of one register, and a layer can be updated without looking at the      *)
(* others.                                                                 *)
(***************************************************************************)
EXTENDS RegisterState, TLAPS

-----------------------------------------------------------------------------
(* Layers.                                                                 *)

LocalNames == {NoLocal} \cup (Regs \X Nat)
Covers == {{}, AL, AX, EAX}
PrefixRecords == [present : BOOLEAN, covers : Covers, local : LocalNames]

Emitters ==
    [committed : [Regs -> PrefixRecords], pending : [Regs -> PrefixRecords],
     cell : [Regs -> LocalNames], pendingCell : [Regs -> LocalNames],
     locals : [Regs -> Seq(Values)]]

\* The layers of a register: pending (b) and committed.
LayerPrefix(e, r, b) == IF b THEN e.pending[r] ELSE e.committed[r]
LayerCell(e, r, b) == IF b THEN e.pendingCell[r] ELSE e.cell[r]

\* A prefix over a cell, over what lies below.
Resolve(e, p, c, below) ==
    [s \in Segments |-> IF s \in p.covers THEN At(e, p.local)[s]
                        ELSE IF c # NoLocal THEN At(e, c)[s]
                        ELSE below[s]]

\* One of the locals of r.
Own(e, r, l) == \E n \in 1 .. Len(e.locals[r]) : l = <<r, n>>

\* A layer by itself: what is known names a local, a cell is a local of its
\* own register and under less than a full prefix.
SoundLayer(e, r, p, c) ==
    /\ p \in PrefixRecords
    /\ p.covers = {} => p.local = NoLocal
    /\ p.covers # {} => p.present /\ p.local \in Locals(e)
    /\ c # NoLocal => /\ p.present /\ p.covers # EAX
                      /\ Own(e, r, c)

\* No other layer names the cell of a layer.
PrivateCell(e, r, b) ==
    LayerCell(e, r, b) # NoLocal =>
        \A q \in Regs, d \in BOOLEAN :
            /\ LayerPrefix(e, q, d).local # LayerCell(e, r, b)
            /\ q # r \/ d # b => LayerCell(e, q, d) # LayerCell(e, r, b)

Sound(e) ==
    /\ e \in Emitters
    /\ \A r \in Regs, b \in BOOLEAN :
         /\ SoundLayer(e, r, LayerPrefix(e, r, b), LayerCell(e, r, b))
         /\ PrivateCell(e, r, b)

StateTyped == memory \in [Regs -> Values]

-----------------------------------------------------------------------------
(* Locals, and the value of a layer.                                       *)

\* A local is a register and the number of one of its locals.
LEMMA LocalNamed ==
    ASSUME NEW e, NEW l
    PROVE  l \in Locals(e) <=> \E r \in Regs : Own(e, r, l)
BY DEF Locals, Own

\* What a local holds is a value, and no local is NoLocal.
LEMMA LocalTyped ==
    ASSUME NEW e \in Emitters, NEW l \in Locals(e)
    PROVE  /\ At(e, l) \in Values
           /\ l # NoLocal
           /\ l \in LocalNames
<1>0. PICK r \in Regs : Own(e, r, l)
  BY LocalNamed
<1>1. PICK n \in 1 .. Len(e.locals[r]) : l = <<r, n>>
  BY <1>0 DEF Own
<1>2. e.locals[r] \in Seq(Values)
  BY DEF Emitters
<1>3. e.locals[r][n] \in Values
  BY <1>2
<1>4. l[1] = r /\ l[2] = n /\ l # <<>> /\ n \in Nat
  BY <1>1, <1>2
<1> QED BY <1>1, <1>3, <1>4 DEF At, NoLocal, LocalNames

\* A value is known by its segments.
LEMMA ValuesEqual ==
    ASSUME NEW v \in Values, NEW w \in Values, \A s \in Segments : v[s] = w[s]
    PROVE  v = w
BY DEF Values

\* A layer's value is a value.
LEMMA ResolveTyped ==
    ASSUME NEW e, Sound(e), NEW r \in Regs, NEW p, NEW c, SoundLayer(e, r, p, c),
           NEW below \in Values
    PROVE  Resolve(e, p, c, below) \in Values
<1>1. e \in Emitters
  BY DEF Sound
<1>2. p.covers # {} => At(e, p.local) \in Values
  BY <1>1, LocalTyped DEF SoundLayer
<1>3. c # NoLocal => At(e, c) \in Values
  BY <1>1, LocalTyped, LocalNamed DEF SoundLayer
<1>4. ASSUME NEW s \in Segments
      PROVE  (IF s \in p.covers THEN At(e, p.local)[s]
              ELSE IF c # NoLocal THEN At(e, c)[s] ELSE below[s]) \in Tokens
  BY <1>2, <1>3, <1>4 DEF Values
<1> QED BY <1>4 DEF Resolve, Values

\* What the code generator computes for a layer is the layer's value.
LEMMA MergedIsResolved ==
    ASSUME NEW e, Sound(e), NEW r \in Regs, NEW b \in BOOLEAN, NEW below \in Values,
           NEW p \in {LayerPrefix(e, r, b)}, NEW c \in {LayerCell(e, r, b)}
    PROVE  (IF c # NoLocal THEN Merged(e, At(e, c), p, c)
            ELSE IF p.covers = EAX THEN At(e, p.local)
            ELSE Merged(e, below, p, NoLocal)) = Resolve(e, p, c, below)
<1>1. e \in Emitters /\ SoundLayer(e, r, p, c) /\ PrivateCell(e, r, b)
  BY DEF Sound
<1>2. p.covers # {} => At(e, p.local) \in Values /\ p.local # NoLocal
  BY <1>1, LocalTyped DEF SoundLayer
<1>3. c # NoLocal => At(e, c) \in Values /\ p.covers # EAX /\ p.local # c
  BY <1>1, LocalTyped, LocalNamed DEF SoundLayer, PrivateCell
<1>4. CASE c # NoLocal /\ p.covers = {}
  <2>1. Merged(e, At(e, c), p, c) = At(e, c)
    BY <1>4 DEF Merged
  <2>2. At(e, c) = Resolve(e, p, c, below)
    BY <1>3, <1>4 DEF Resolve, Values
  <2> QED BY <1>4, <2>1, <2>2
<1>5. CASE c # NoLocal /\ p.covers # {}
  <2>1. Merged(e, At(e, c), p, c) = Overlay(At(e, c), At(e, p.local), p.covers)
    BY <1>3, <1>5 DEF Merged
  <2>2. Overlay(At(e, c), At(e, p.local), p.covers) = Resolve(e, p, c, below)
    BY <1>5 DEF Resolve, Overlay
  <2> QED BY <1>5, <2>1, <2>2
<1>6. CASE c = NoLocal /\ p.covers = EAX
  <2>1. At(e, p.local) \in Values
    BY <1>2, <1>6 DEF EAX
  <2>2. At(e, p.local) = Resolve(e, p, c, below)
    BY <2>1, <1>6 DEF Resolve, Values, Segments
  <2> QED BY <1>6, <2>2
<1>7. CASE c = NoLocal /\ p.covers = {}
  <2>1. Merged(e, below, p, NoLocal) = below /\ p.covers # EAX
    BY <1>7 DEF Merged, EAX
  <2>2. below = Resolve(e, p, c, below)
    BY <1>7 DEF Resolve, Values
  <2> QED BY <1>7, <2>1, <2>2
<1>8. CASE c = NoLocal /\ p.covers \notin {{}, EAX}
  <2>1. Merged(e, below, p, NoLocal) = Overlay(below, At(e, p.local), p.covers)
    BY <1>2, <1>8 DEF Merged
  <2>2. Overlay(below, At(e, p.local), p.covers) = Resolve(e, p, c, below)
    BY <1>8 DEF Resolve, Overlay
  <2> QED BY <1>8, <2>1, <2>2
<1> QED BY <1>4, <1>5, <1>6, <1>7, <1>8

\* The committed value lies over the CPU state, the current one over it.
LEMMA LayerValues ==
    ASSUME NEW e, Sound(e), StateTyped, NEW r \in Regs
    PROVE  /\ CommittedFull(e, r) =
                Resolve(e, LayerPrefix(e, r, FALSE), LayerCell(e, r, FALSE), memory[r])
           /\ CurrentFull(e, r) =
                Resolve(e, LayerPrefix(e, r, TRUE), LayerCell(e, r, TRUE), CommittedFull(e, r))
           /\ CommittedFull(e, r) \in Values
           /\ CurrentFull(e, r) \in Values
<1>1. memory[r] \in Values
  BY DEF StateTyped
<1>2. \A b \in BOOLEAN : SoundLayer(e, r, LayerPrefix(e, r, b), LayerCell(e, r, b))
  BY DEF Sound
<1>3. CommittedFull(e, r) =
        Resolve(e, LayerPrefix(e, r, FALSE), LayerCell(e, r, FALSE), memory[r])
  <2>1. e.committed[r] \in {LayerPrefix(e, r, FALSE)} /\ e.cell[r] \in {LayerCell(e, r, FALSE)}
    BY DEF LayerPrefix, LayerCell
  <2>2. CommittedFull(e, r) = Resolve(e, e.committed[r], e.cell[r], memory[r])
    BY <1>1, <2>1, MergedIsResolved DEF CommittedFull
  <2> QED BY <2>1, <2>2
<1>4. CommittedFull(e, r) \in Values
  BY <1>1, <1>2, <1>3, ResolveTyped
<1>5. CurrentFull(e, r) =
        Resolve(e, LayerPrefix(e, r, TRUE), LayerCell(e, r, TRUE), CommittedFull(e, r))
  <2>1. e.pending[r] \in {LayerPrefix(e, r, TRUE)} /\ e.pendingCell[r] \in {LayerCell(e, r, TRUE)}
    BY DEF LayerPrefix, LayerCell
  <2>2. CurrentFull(e, r) = Resolve(e, e.pending[r], e.pendingCell[r], CommittedFull(e, r))
    BY <1>4, <2>1, MergedIsResolved DEF CurrentFull
  <2> QED BY <2>1, <2>2
<1>6. CurrentFull(e, r) \in Values
  BY <1>2, <1>4, <1>5, ResolveTyped
<1> QED BY <1>3, <1>4, <1>5, <1>6

-----------------------------------------------------------------------------
(* What the steps of an operation leave alone.                             *)

\* No local is lost, and none changes.
Extends(e, f) == \A l \in Locals(e) : l \in Locals(f) /\ At(f, l) = At(e, l)

SameLayers(e, f, q) ==
    \A b \in BOOLEAN : /\ LayerPrefix(f, q, b) = LayerPrefix(e, q, b)
                       /\ LayerCell(f, q, b) = LayerCell(e, q, b)

SameValues(e, f, q) ==
    /\ CommittedFull(f, q) = CommittedFull(e, q)
    /\ CurrentFull(f, q) = CurrentFull(e, q)

\* The registers other than r are as they were.
Others(e, f, r) == \A q \in Regs : q # r => SameLayers(e, f, q) /\ SameValues(e, f, q)

\* A layer that fits stays so when locals are added.
LEMMA SoundLayerKept ==
    ASSUME NEW e, NEW f, Extends(e, f), NEW r \in Regs, NEW p, NEW c, SoundLayer(e, r, p, c)
    PROVE  SoundLayer(f, r, p, c)
<1>1. p.covers # {} => p.local \in Locals(f)
  BY DEF SoundLayer, Extends
<1>2. ASSUME c # NoLocal
      PROVE  Own(f, r, c)
  <2>1. c \in Locals(e) /\ \E n : c = <<r, n>>
    BY <1>2, LocalNamed DEF SoundLayer, Own
  <2>2. c \in Locals(f)
    BY <2>1 DEF Extends
  <2>3. PICK q \in Regs : Own(f, q, c)
    BY <2>2, LocalNamed
  <2>4. q = r
    BY <2>1, <2>3 DEF Own
  <2> QED BY <2>3, <2>4
<1> QED BY <1>1, <1>2 DEF SoundLayer

\* A layer's value depends on the locals it names, and on what lies below
\* where it says nothing.
LEMMA ResolveKept ==
    ASSUME NEW e, NEW f, Extends(e, f), NEW r \in Regs, NEW p, NEW c, SoundLayer(e, r, p, c),
           NEW below
    PROVE  Resolve(f, p, c, below) = Resolve(e, p, c, below)
<1>1. p.covers # {} => At(f, p.local) = At(e, p.local)
  BY DEF SoundLayer, Extends
<1>2. c # NoLocal => At(f, c) = At(e, c)
  BY LocalNamed DEF SoundLayer, Extends
<1> QED BY <1>1, <1>2 DEF Resolve

\* The committed value is that of the committed layer over the CPU state.
LEMMA CommittedSame ==
    ASSUME NEW e, NEW f, Sound(e), Sound(f), StateTyped, NEW q \in Regs,
           \A below :
             Resolve(f, LayerPrefix(f, q, FALSE), LayerCell(f, q, FALSE), below) =
             Resolve(e, LayerPrefix(e, q, FALSE), LayerCell(e, q, FALSE), below)
    PROVE  CommittedFull(f, q) = CommittedFull(e, q)
BY LayerValues

\* A register whose layers have the same values has the same values.
LEMMA SameCoverage ==
    ASSUME NEW e, NEW f, Sound(e), Sound(f), StateTyped, NEW q \in Regs,
           \A b \in BOOLEAN : \A below :
             Resolve(f, LayerPrefix(f, q, b), LayerCell(f, q, b), below) =
             Resolve(e, LayerPrefix(e, q, b), LayerCell(e, q, b), below)
    PROVE  SameValues(e, f, q)
<1>3. \A below : Resolve(f, LayerPrefix(f, q, FALSE), LayerCell(f, q, FALSE), below) =
                  Resolve(e, LayerPrefix(e, q, FALSE), LayerCell(e, q, FALSE), below)
  OBVIOUS
<1>4. \A below : Resolve(f, LayerPrefix(f, q, TRUE), LayerCell(f, q, TRUE), below) =
                  Resolve(e, LayerPrefix(e, q, TRUE), LayerCell(e, q, TRUE), below)
  OBVIOUS
<1>5. CommittedFull(f, q) = CommittedFull(e, q)
  BY <1>3, CommittedSame
<1>6. CurrentFull(f, q) = CurrentFull(e, q)
  BY <1>4, <1>5, LayerValues
<1> QED BY <1>5, <1>6 DEF SameValues

\* A register whose layers are the same, and name locals that did not change,
\* has the same values.
LEMMA ValuesKept ==
    ASSUME NEW e, NEW f, Sound(e), Sound(f), StateTyped, NEW q \in Regs, SameLayers(e, f, q),
           Extends(e, f)
    PROVE  SameValues(e, f, q)
<1>1. \A b \in BOOLEAN : SoundLayer(e, q, LayerPrefix(e, q, b), LayerCell(e, q, b))
  BY DEF Sound
<1>2. \A b \in BOOLEAN : \A below :
        Resolve(f, LayerPrefix(f, q, b), LayerCell(f, q, b), below) =
        Resolve(e, LayerPrefix(e, q, b), LayerCell(e, q, b), below)
  BY <1>1, ResolveKept DEF SameLayers
<1> QED BY <1>2, SameCoverage

-----------------------------------------------------------------------------
(* The elementary steps.                                                   *)

\* e with s for the locals of r.
WithLocals(e, r, s) == [e EXCEPT !.locals = [e.locals EXCEPT ![r] = s]]

\* An emitter with other locals is an emitter.
LEMMA LocalsReplaced ==
    ASSUME NEW e \in Emitters, NEW r \in Regs, NEW s \in Seq(Values),
           NEW f, f = WithLocals(e, r, s)
    PROVE  /\ f \in Emitters
           /\ f.committed = e.committed /\ f.pending = e.pending
           /\ f.cell = e.cell /\ f.pendingCell = e.pendingCell
           /\ f.locals[r] = s
           /\ \A q \in Regs : q # r => f.locals[q] = e.locals[q]
<1>1. e.locals \in [Regs -> Seq(Values)]
  BY DEF Emitters
<1>2. [e.locals EXCEPT ![r] = s] \in [Regs -> Seq(Values)]
  BY <1>1
<1>3. f \in Emitters
  BY <1>2 DEF Emitters, WithLocals
<1>4. f.locals = [e.locals EXCEPT ![r] = s]
  BY DEF Emitters, WithLocals
<1> QED BY <1>1, <1>3, <1>4 DEF Emitters, WithLocals

\* A local that is added is new; nothing names it, and nothing else changes.
LEMMA LocalAdded ==
    ASSUME NEW e, Sound(e), NEW r \in Regs, NEW v \in Values,
           NEW f, f = AddLocal(e, r, v), NEW l, l = Newest(f, r)
    PROVE  /\ Sound(f)
           /\ Extends(e, f)
           /\ \A q \in Regs : SameLayers(e, f, q)
           /\ l \in Locals(f) /\ At(f, l) = v /\ l # NoLocal
           /\ Own(f, r, l)
           /\ \A q \in Regs, b \in BOOLEAN :
                LayerPrefix(f, q, b).local # l /\ LayerCell(f, q, b) # l
<1>1. e \in Emitters /\ e.locals[r] \in Seq(Values)
  BY DEF Sound, Emitters
<1>0. PICK ls : ls = Append(e.locals[r], v)
  OBVIOUS
<1>2. f = WithLocals(e, r, ls)
  BY <1>0, <1>1 DEF AddLocal, WithLocals, Emitters
<1>5. /\ ls \in Seq(Values)
      /\ Len(ls) = Len(e.locals[r]) + 1
      /\ Len(e.locals[r]) \in Nat
      /\ ls[Len(e.locals[r]) + 1] = v
      /\ \A n \in 1 .. Len(e.locals[r]) : ls[n] = e.locals[r][n]
  BY <1>0, <1>1
<1>3. /\ f \in Emitters
      /\ f.committed = e.committed /\ f.pending = e.pending
      /\ f.cell = e.cell /\ f.pendingCell = e.pendingCell
      /\ f.locals[r] = ls
      /\ \A q \in Regs : q # r => f.locals[q] = e.locals[q]
  BY <1>1, <1>2, <1>5, LocalsReplaced
<1>4. /\ f.locals[r] = ls
      /\ \A q \in Regs : q # r => f.locals[q] = e.locals[q]
  BY <1>3
<1>6. f \in Emitters
  BY <1>3
<1>7. l = <<r, Len(e.locals[r]) + 1>>
  BY <1>4, <1>5 DEF Newest
<1>8. Extends(e, f)
  <2>1. SUFFICES ASSUME NEW k \in Locals(e)
                 PROVE  k \in Locals(f) /\ At(f, k) = At(e, k)
    BY DEF Extends
  <2>2. PICK q \in Regs : Own(e, q, k)
    BY LocalNamed
  <2>3. PICK n \in 1 .. Len(e.locals[q]) : k = <<q, n>>
    BY <2>2 DEF Own
  <2>4. k[1] = q /\ k[2] = n
    BY <2>3
  <2>5. n \in 1 .. Len(f.locals[q]) /\ f.locals[q][n] = e.locals[q][n]
    <3>1. CASE q = r
      BY <1>4, <1>5, <2>3, <3>1
    <3>2. CASE q # r
      BY <1>4, <2>3, <3>2
    <3> QED BY <3>1, <3>2
  <2> QED BY <2>3, <2>4, <2>5, LocalNamed DEF At, Own
<1>9. Len(f.locals[r]) = Len(e.locals[r]) + 1 /\ Len(e.locals[r]) + 1 \in 1 .. Len(f.locals[r])
  BY <1>4, <1>5
<1>10. l \in Locals(f) /\ l # NoLocal
  BY <1>6, <1>7, <1>9, LocalNamed, LocalTyped DEF Own
<1>11. At(f, l) = v
  BY <1>4, <1>5, <1>7 DEF At
<1>12. l \notin Locals(e)
  <2>1. ASSUME NEW q \in Regs, NEW n \in 1 .. Len(e.locals[q]), l = <<q, n>>
        PROVE  FALSE
    BY <1>5, <1>7, <2>1
  <2> QED BY <2>1, LocalNamed DEF Own
<1>13. \A q \in Regs : SameLayers(e, f, q)
  BY <1>3 DEF SameLayers, LayerPrefix, LayerCell
<1>14. ASSUME NEW q \in Regs, NEW b \in BOOLEAN
       PROVE  /\ SoundLayer(f, q, LayerPrefix(f, q, b), LayerCell(f, q, b))
              /\ PrivateCell(f, q, b)
              /\ LayerPrefix(f, q, b).local # l /\ LayerCell(f, q, b) # l
  <2>1. SoundLayer(e, q, LayerPrefix(e, q, b), LayerCell(e, q, b)) /\ PrivateCell(e, q, b)
    BY DEF Sound
  <2>2. SoundLayer(f, q, LayerPrefix(f, q, b), LayerCell(f, q, b))
    BY <1>8, <1>13, <2>1, SoundLayerKept DEF SameLayers
  <2>3. PrivateCell(f, q, b)
    BY <1>13, <2>1 DEF PrivateCell, SameLayers
  <2>4. LayerPrefix(e, q, b).local # l
    BY <1>10, <1>12, <2>1 DEF SoundLayer
  <2>5. LayerCell(e, q, b) # l
    BY <1>10, <1>12, <2>1, LocalNamed DEF SoundLayer
  <2> QED BY <1>13, <2>2, <2>3, <2>4, <2>5 DEF SameLayers
<1> QED BY <1>6, <1>7, <1>8, <1>9, <1>10, <1>11, <1>13, <1>14 DEF Sound, Own

\* A cell is updated in place: no other local changes.
LEMMA CellUpdated ==
    ASSUME NEW e, Sound(e), NEW r \in Regs, NEW b \in BOOLEAN, NEW c, c = LayerCell(e, r, b),
           c # NoLocal, NEW v \in Values, NEW f, f = SetLocal(e, c, v)
    PROVE  /\ Sound(f)
           /\ \A l \in Locals(e) : l \in Locals(f) /\ (l # c => At(f, l) = At(e, l))
           /\ At(f, c) = v
           /\ c \in Locals(e)
           /\ \A q \in Regs : SameLayers(e, f, q)
<1>1. e \in Emitters /\ e.locals[r] \in Seq(Values)
  BY DEF Sound, Emitters
<1>2. PICK m \in 1 .. Len(e.locals[r]) : c = <<r, m>>
  BY DEF Sound, SoundLayer, Own
<1>3. c[1] = r /\ c[2] = m
  BY <1>2
<1>4. f = WithLocals(e, r, [e.locals[r] EXCEPT ![m] = v])
  BY <1>1, <1>3 DEF SetLocal, WithLocals, Emitters
<1>7. /\ [e.locals[r] EXCEPT ![m] = v] \in Seq(Values)
      /\ Len([e.locals[r] EXCEPT ![m] = v]) = Len(e.locals[r])
      /\ [e.locals[r] EXCEPT ![m] = v][m] = v
      /\ \A n \in 1 .. Len(e.locals[r]) : n # m => [e.locals[r] EXCEPT ![m] = v][n] = e.locals[r][n]
  BY <1>1, <1>2
<1>5. /\ f \in Emitters
      /\ f.committed = e.committed /\ f.pending = e.pending
      /\ f.cell = e.cell /\ f.pendingCell = e.pendingCell
      /\ f.locals[r] = [e.locals[r] EXCEPT ![m] = v]
      /\ \A q \in Regs : q # r => f.locals[q] = e.locals[q]
  BY <1>1, <1>4, <1>7, LocalsReplaced
<1>6. /\ f.locals[r] = [e.locals[r] EXCEPT ![m] = v]
      /\ \A q \in Regs : q # r => f.locals[q] = e.locals[q]
  BY <1>5
<1>8. f \in Emitters
  BY <1>5
<1>9. \A q \in Regs : Len(f.locals[q]) = Len(e.locals[q])
  BY <1>6, <1>7
<1>10. \A l : l \in Locals(f) <=> l \in Locals(e)
  BY <1>9, LocalNamed DEF Own
<1>11. c \in Locals(e)
  BY <1>2, LocalNamed DEF Own
<1>12. ASSUME NEW l \in Locals(e), l # c
       PROVE  At(f, l) = At(e, l)
  <2>1. PICK q \in Regs : Own(e, q, l)
    BY LocalNamed
  <2>2. PICK n \in 1 .. Len(e.locals[q]) : l = <<q, n>>
    BY <2>1 DEF Own
  <2>3. l[1] = q /\ l[2] = n
    BY <2>2
  <2>4. f.locals[q][n] = e.locals[q][n]
    BY <1>2, <1>6, <1>7, <1>12, <2>2
  <2> QED BY <2>3, <2>4 DEF At
<1>13. At(f, c) = v
  BY <1>3, <1>6, <1>7 DEF At
<1>14. \A q \in Regs : SameLayers(e, f, q)
  BY <1>5 DEF SameLayers, LayerPrefix, LayerCell
<1>15. ASSUME NEW q \in Regs, NEW d \in BOOLEAN
       PROVE  /\ SoundLayer(f, q, LayerPrefix(f, q, d), LayerCell(f, q, d))
              /\ PrivateCell(f, q, d)
  <2>1. SoundLayer(e, q, LayerPrefix(e, q, d), LayerCell(e, q, d)) /\ PrivateCell(e, q, d)
    BY DEF Sound
  <2>2. SoundLayer(f, q, LayerPrefix(f, q, d), LayerCell(f, q, d))
    BY <1>9, <1>10, <1>14, <2>1 DEF SoundLayer, SameLayers, Own
  <2>3. PrivateCell(f, q, d)
    BY <1>14, <2>1 DEF PrivateCell, SameLayers
  <2> QED BY <2>2, <2>3
<1> QED BY <1>8, <1>10, <1>11, <1>12, <1>13, <1>14, <1>15 DEF Sound

\* f is e, but for the prefix and the cell of one layer.
Updated(e, f, r, b, p, c) ==
    /\ f \in Emitters /\ f.locals = e.locals
    /\ LayerPrefix(f, r, b) = p /\ LayerCell(f, r, b) = c
    /\ \A q \in Regs, d \in BOOLEAN :
         q # r \/ d # b => /\ LayerPrefix(f, q, d) = LayerPrefix(e, q, d)
                           /\ LayerCell(f, q, d) = LayerCell(e, q, d)

\* Record and SetCell update one layer.
LEMMA RecordUpdates ==
    ASSUME NEW e \in Emitters, NEW r \in Regs, NEW b \in BOOLEAN, NEW p \in PrefixRecords,
           NEW f, f = Record(e, r, p, b)
    PROVE  Updated(e, f, r, b, p, LayerCell(e, r, b))
<1>1. CASE b
  <2>1. [e.pending EXCEPT ![r] = p] \in [Regs -> PrefixRecords]
    BY DEF Emitters
  <2>2. f \in Emitters
    BY <1>1, <2>1 DEF Emitters, Record
  <2>3. /\ f.pending = [e.pending EXCEPT ![r] = p] /\ f.committed = e.committed
        /\ f.cell = e.cell /\ f.pendingCell = e.pendingCell /\ f.locals = e.locals
    BY <1>1 DEF Emitters, Record
  <2> QED BY <1>1, <2>1, <2>2, <2>3 DEF Updated, LayerPrefix, LayerCell, Emitters
<1>2. CASE ~b
  <2>1. [e.committed EXCEPT ![r] = p] \in [Regs -> PrefixRecords]
    BY DEF Emitters
  <2>2. f \in Emitters
    BY <1>2, <2>1 DEF Emitters, Record
  <2>3. /\ f.committed = [e.committed EXCEPT ![r] = p] /\ f.pending = e.pending
        /\ f.cell = e.cell /\ f.pendingCell = e.pendingCell /\ f.locals = e.locals
    BY <1>2 DEF Emitters, Record
  <2> QED BY <1>2, <2>1, <2>2, <2>3 DEF Updated, LayerPrefix, LayerCell, Emitters
<1> QED BY <1>1, <1>2

LEMMA SetCellUpdates ==
    ASSUME NEW e \in Emitters, NEW r \in Regs, NEW b \in BOOLEAN, NEW c \in LocalNames,
           NEW f, f = SetCell(e, r, c, b)
    PROVE  Updated(e, f, r, b, LayerPrefix(e, r, b), c)
<1>1. CASE b
  <2>1. [e.pendingCell EXCEPT ![r] = c] \in [Regs -> LocalNames]
    BY DEF Emitters
  <2>2. f \in Emitters
    BY <1>1, <2>1 DEF Emitters, SetCell
  <2>3. /\ f.pendingCell = [e.pendingCell EXCEPT ![r] = c] /\ f.committed = e.committed
        /\ f.cell = e.cell /\ f.pending = e.pending /\ f.locals = e.locals
    BY <1>1 DEF Emitters, SetCell
  <2> QED BY <1>1, <2>1, <2>2, <2>3 DEF Updated, LayerPrefix, LayerCell, Emitters
<1>2. CASE ~b
  <2>1. [e.cell EXCEPT ![r] = c] \in [Regs -> LocalNames]
    BY DEF Emitters
  <2>2. f \in Emitters
    BY <1>2, <2>1 DEF Emitters, SetCell
  <2>3. /\ f.cell = [e.cell EXCEPT ![r] = c] /\ f.pending = e.pending
        /\ f.committed = e.committed /\ f.pendingCell = e.pendingCell /\ f.locals = e.locals
    BY <1>2 DEF Emitters, SetCell
  <2> QED BY <1>2, <2>1, <2>2, <2>3 DEF Updated, LayerPrefix, LayerCell, Emitters
<1> QED BY <1>1, <1>2

\* Both at once.
LEMMA LayerReplaced ==
    ASSUME NEW e \in Emitters, NEW r \in Regs, NEW b \in BOOLEAN, NEW p \in PrefixRecords,
           NEW c \in LocalNames, NEW f, f = SetCell(Record(e, r, p, b), r, c, b)
    PROVE  Updated(e, f, r, b, p, c)
<1>1. Updated(e, Record(e, r, p, b), r, b, p, LayerCell(e, r, b))
  BY RecordUpdates
<1>2. Updated(Record(e, r, p, b), f, r, b, LayerPrefix(Record(e, r, p, b), r, b), c)
  BY <1>1, SetCellUpdates DEF Updated
<1> QED BY <1>1, <1>2 DEF Updated

\* A prefix and a cell that may be put in a layer.
Fits(e, r, b, p, c) ==
    /\ SoundLayer(e, r, p, c)
    /\ c # NoLocal => p.local # c
    /\ \A q \in Regs, d \in BOOLEAN :
         q # r \/ d # b =>
             /\ LayerCell(e, q, d) # NoLocal => LayerCell(e, q, d) # p.local
             /\ c # NoLocal => LayerPrefix(e, q, d).local # c /\ LayerCell(e, q, d) # c

\* What lies below a layer.
Below(e, r, b) == IF b THEN CommittedFull(e, r) ELSE memory[r]

\* f is e with one layer of r changed.
Within(e, f, r, b) ==
    /\ Sound(f)
    /\ Others(e, f, r)
    /\ \A d \in BOOLEAN : d # b => /\ LayerPrefix(f, r, d) = LayerPrefix(e, r, d)
                                  /\ LayerCell(f, r, d) = LayerCell(e, r, d)
    /\ Below(f, r, b) = Below(e, r, b)

\* Changes of one layer compose.
LEMMA WithinTransitive ==
    ASSUME NEW e, NEW f, NEW g, NEW r, NEW b, Within(e, f, r, b), Within(f, g, r, b)
    PROVE  Within(e, g, r, b)
BY DEF Within, Others, SameLayers, SameValues

\* Putting what fits in a layer changes that layer only.
LEMMA LayerUpdated ==
    ASSUME NEW e, Sound(e), StateTyped, NEW r \in Regs, NEW b \in BOOLEAN, NEW p, NEW c,
           Fits(e, r, b, p, c), NEW f, Updated(e, f, r, b, p, c)
    PROVE  /\ Within(e, f, r, b)
           /\ Extends(e, f)
           /\ \A l : l \in Locals(f) => l \in Locals(e)
<1>1. \A l : (l \in Locals(f) <=> l \in Locals(e)) /\ At(f, l) = At(e, l)
  BY DEF Updated, Locals, At
<1>2. Extends(e, f)
  BY <1>1 DEF Extends
<1>3. ASSUME NEW q \in Regs, NEW d \in BOOLEAN
      PROVE  SoundLayer(f, q, LayerPrefix(f, q, d), LayerCell(f, q, d))
  <2>1. CASE q = r /\ d = b
    BY <1>2, <2>1, SoundLayerKept DEF Updated, Fits
  <2>2. CASE q # r \/ d # b
    <3>1. SoundLayer(e, q, LayerPrefix(e, q, d), LayerCell(e, q, d))
      BY DEF Sound
    <3> QED BY <1>2, <2>2, <3>1, SoundLayerKept DEF Updated
  <2> QED BY <2>1, <2>2
<1>4. ASSUME NEW q \in Regs, NEW d \in BOOLEAN
      PROVE  PrivateCell(f, q, d)
  <2>1. CASE q = r /\ d = b
    <3>1. LayerCell(f, q, d) = c /\ LayerPrefix(f, q, d) = p
      BY <2>1 DEF Updated
    <3> QED BY <2>1, <3>1 DEF Updated, Fits, PrivateCell
  <2>2. CASE q # r \/ d # b
    <3>1. PrivateCell(e, q, d) /\ LayerCell(f, q, d) = LayerCell(e, q, d)
      BY <2>2 DEF Sound, Updated
    <3>2. ASSUME LayerCell(e, q, d) # NoLocal, NEW t \in Regs, NEW h \in BOOLEAN
          PROVE  /\ LayerPrefix(f, t, h).local # LayerCell(e, q, d)
                 /\ t # q \/ h # d => LayerCell(f, t, h) # LayerCell(e, q, d)
      <4>1. CASE t = r /\ h = b
        BY <2>2, <3>2, <4>1 DEF Updated, Fits
      <4>2. CASE t # r \/ h # b
        BY <3>1, <3>2, <4>2 DEF Updated, PrivateCell
      <4> QED BY <4>1, <4>2
    <3> QED BY <3>1, <3>2 DEF PrivateCell
  <2> QED BY <2>1, <2>2
<1>5. Sound(f)
  BY <1>3, <1>4 DEF Sound, Updated
<1>6. Others(e, f, r)
  <2>1. ASSUME NEW q \in Regs, q # r
        PROVE  SameLayers(e, f, q)
    BY <2>1 DEF Updated, SameLayers
  <2> QED BY <1>2, <1>5, <2>1, ValuesKept DEF Others
<1>7. \A d \in BOOLEAN : d # b => /\ LayerPrefix(f, r, d) = LayerPrefix(e, r, d)
                                  /\ LayerCell(f, r, d) = LayerCell(e, r, d)
  BY DEF Updated
<1>8. Below(f, r, b) = Below(e, r, b)
  <2>1. CASE b
    <3>1. /\ LayerPrefix(f, r, FALSE) = LayerPrefix(e, r, FALSE)
          /\ LayerCell(f, r, FALSE) = LayerCell(e, r, FALSE)
      BY <1>7, <2>1
    <3>2. \A d \in BOOLEAN : \A below :
            Resolve(f, LayerPrefix(e, r, d), LayerCell(e, r, d), below) =
            Resolve(e, LayerPrefix(e, r, d), LayerCell(e, r, d), below)
      BY <1>2, ResolveKept DEF Sound
    <3>3. Resolve(f, LayerPrefix(e, r, FALSE), LayerCell(e, r, FALSE), memory[r]) =
          Resolve(e, LayerPrefix(e, r, FALSE), LayerCell(e, r, FALSE), memory[r])
      BY <3>2
    <3>4. CommittedFull(f, r) = CommittedFull(e, r)
      BY <1>5, <3>1, <3>3, LayerValues
    <3> QED BY <2>1, <3>4 DEF Below
  <2>2. CASE ~b
    BY <2>2 DEF Below
  <2> QED BY <2>1, <2>2
<1> QED BY <1>1, <1>2, <1>5, <1>6, <1>7, <1>8 DEF Within

\* A layer is the top one when it is pending, or nothing is pending.
Top(e, r, b) == ~b => LayerPrefix(e, r, TRUE).covers = {} /\ LayerCell(e, r, TRUE) = NoLocal

\* A change of the top layer leaves it the top one.
LEMMA TopKept ==
    ASSUME NEW e, NEW f, NEW r \in Regs, NEW b \in BOOLEAN, Within(e, f, r, b), Top(e, r, b)
    PROVE  Top(f, r, b)
<1>1. CASE b
  BY <1>1 DEF Top
<1>2. CASE ~b
  <2>1. TRUE # b
    BY <1>2
  <2> QED BY <2>1 DEF Top, Within
<1> QED BY <1>1, <1>2

\* The current value of a register is that of its top layer.
LEMMA TopValue ==
    ASSUME NEW e, Sound(e), StateTyped, NEW r \in Regs, NEW b \in BOOLEAN, Top(e, r, b)
    PROVE  CurrentFull(e, r) =
             Resolve(e, LayerPrefix(e, r, b), LayerCell(e, r, b), Below(e, r, b))
<1>1. CASE b
  BY <1>1, LayerValues DEF Below
<1>2. CASE ~b
  <2>1. CurrentFull(e, r) = Resolve(e, LayerPrefix(e, r, TRUE), LayerCell(e, r, TRUE), CommittedFull(e, r))
    BY LayerValues
  <2>2. LayerPrefix(e, r, TRUE).covers = {} /\ LayerCell(e, r, TRUE) = NoLocal
    BY <1>2 DEF Top
  <2>3. Resolve(e, LayerPrefix(e, r, TRUE), LayerCell(e, r, TRUE), CommittedFull(e, r)) = CommittedFull(e, r)
    BY <2>2, LayerValues DEF Resolve, Values
  <2>4. CommittedFull(e, r) = Resolve(e, LayerPrefix(e, r, FALSE), LayerCell(e, r, FALSE), memory[r])
    BY LayerValues
  <2> QED BY <1>2, <2>1, <2>3, <2>4 DEF Below
<1> QED BY <1>1, <1>2

-----------------------------------------------------------------------------
(* Reads.                                                                  *)

Pends(e, r) == e.pending[r].present \/ e.pendingCell[r] # NoLocal

Aliases == {AL, AH, AX, EAX}

\* A segment is where its alias and its prefix say.
LEMMA ValueOfSegment ==
    ASSUME NEW e, Sound(e), StateTyped, NEW r \in Regs, NEW s \in Segments
    PROVE  /\ CommittedFull(e, r)[s] =
                IF s \in e.committed[r].covers THEN At(e, e.committed[r].local)[s]
                ELSE IF e.cell[r] # NoLocal THEN At(e, e.cell[r])[s] ELSE memory[r][s]
           /\ CurrentFull(e, r)[s] =
                IF s \in e.pending[r].covers THEN At(e, e.pending[r].local)[s]
                ELSE IF e.pendingCell[r] # NoLocal THEN At(e, e.pendingCell[r])[s]
                ELSE CommittedFull(e, r)[s]
BY LayerValues DEF Resolve, LayerPrefix, LayerCell

\* What is sound about the two layers, by their fields.
LEMMA LayersSound ==
    ASSUME NEW e, Sound(e), NEW r \in Regs
    PROVE  /\ e \in Emitters
           /\ SoundLayer(e, r, e.committed[r], e.cell[r])
           /\ SoundLayer(e, r, e.pending[r], e.pendingCell[r])
BY DEF Sound, LayerPrefix, LayerCell

\* The storage's answer to where an alias is: a prefix that holds its value.
LEMMA SourceRight ==
    ASSUME NEW e, Sound(e), StateTyped, NEW r \in Regs, NEW alias \in Aliases,
           CurrentSource(e, r, alias).covers # {}
    PROVE  /\ CurrentSource(e, r, alias) \in {e.committed[r], e.pending[r]}
           /\ alias \subseteq CurrentSource(e, r, alias).covers
           /\ CurrentSource(e, r, alias).local \in Locals(e)
           /\ Agree(At(e, CurrentSource(e, r, alias).local), CurrentFull(e, r), alias)
<1> DEFINE hides == e.pending[r].present
                      /\ (Overlaps(e.pending[r], alias) \/ e.pendingCell[r] # NoLocal)
<1>1. SoundLayer(e, r, e.committed[r], e.cell[r]) /\ SoundLayer(e, r, e.pending[r], e.pendingCell[r])
  BY LayersSound
<1>2. alias \subseteq Segments
  BY DEF Aliases, Segments, AL, AH, AX, EAX
<1>3. Unknown.covers = {}
  BY DEF Unknown
<1>4. CASE hides
  <2>1. CurrentSource(e, r, alias) = e.pending[r] /\ alias \subseteq e.pending[r].covers
    BY <1>3, <1>4 DEF CurrentSource
  <2>2. \A s \in alias : CurrentFull(e, r)[s] = At(e, e.pending[r].local)[s]
    BY <1>2, <2>1, ValueOfSegment
  <2> QED BY <1>1, <2>1, <2>2 DEF SoundLayer, Agree
<1>5. CASE ~hides
  <2>1. CurrentSource(e, r, alias) = e.committed[r] /\ alias \subseteq e.committed[r].covers
    BY <1>3, <1>5 DEF CurrentSource
  <2>2. e.pendingCell[r] = NoLocal /\ \A s \in alias : s \notin e.pending[r].covers
    BY <1>1, <1>5 DEF SoundLayer, Overlaps
  <2>3. \A s \in alias : CurrentFull(e, r)[s] = At(e, e.committed[r].local)[s]
    BY <1>2, <2>1, <2>2, ValueOfSegment
  <2> QED BY <1>1, <2>1, <2>3 DEF SoundLayer, Agree
<1> QED BY <1>4, <1>5

\* A cell that alone holds the current value.
LEMMA UncoveredRight ==
    ASSUME NEW e, Sound(e), StateTyped, NEW r \in Regs, UncoveredCell(e, r) # NoLocal
    PROVE  /\ UncoveredCell(e, r) \in Locals(e)
           /\ At(e, UncoveredCell(e, r)) = CurrentFull(e, r)
<1>1. SoundLayer(e, r, e.committed[r], e.cell[r]) /\ SoundLayer(e, r, e.pending[r], e.pendingCell[r])
  BY LayersSound
<1>2. e.pending[r].covers = {}
  BY DEF UncoveredCell
<1>3. CASE e.pendingCell[r] # NoLocal
  <2>1. UncoveredCell(e, r) = e.pendingCell[r]
    BY <1>2, <1>3 DEF UncoveredCell
  <2>2. e.pendingCell[r] \in Locals(e)
    BY <1>1, <1>3, LocalNamed DEF SoundLayer
  <2>3. \A s \in Segments : At(e, e.pendingCell[r])[s] = CurrentFull(e, r)[s]
    BY <1>2, <1>3, ValueOfSegment
  <2>4. At(e, e.pendingCell[r]) \in Values /\ CurrentFull(e, r) \in Values
    BY <2>2, LocalTyped, LayerValues DEF Sound
  <2>5. At(e, e.pendingCell[r]) = CurrentFull(e, r)
    BY <2>3, <2>4, ValuesEqual
  <2> QED BY <2>1, <2>2, <2>5
<1>4. CASE e.pendingCell[r] = NoLocal
  <2>1. UncoveredCell(e, r) = e.cell[r] /\ e.committed[r].covers = {} /\ e.cell[r] # NoLocal
    BY <1>2, <1>4 DEF UncoveredCell
  <2>2. e.cell[r] \in Locals(e)
    BY <1>1, <2>1, LocalNamed DEF SoundLayer
  <2>3. \A s \in Segments : At(e, e.cell[r])[s] = CurrentFull(e, r)[s]
    BY <1>2, <1>4, <2>1, ValueOfSegment
  <2>4. At(e, e.cell[r]) \in Values /\ CurrentFull(e, r) \in Values
    BY <2>2, LocalTyped, LayerValues DEF Sound
  <2>5. At(e, e.cell[r]) = CurrentFull(e, r)
    BY <2>3, <2>4, ValuesEqual
  <2> QED BY <2>1, <2>2, <2>5
<1> QED BY <1>3, <1>4

\* f is e with the value of r copied to local l, and recorded.
Copied(e, f, r, l) ==
    /\ Within(e, f, r, Pends(e, r))
    /\ Extends(e, f)
    /\ SameValues(e, f, r)
    /\ LayerPrefix(f, r, Pends(e, r)) = Prefix(l, EAX)
    /\ LayerCell(f, r, Pends(e, r)) = NoLocal
    /\ l \in Locals(f)
    /\ At(f, l) = CurrentFull(e, r)
    /\ \A q \in Regs, b \in BOOLEAN : LayerCell(f, q, b) # l

\* A copy leaves every value as it is.
LEMMA CopyOutCopies ==
    ASSUME NEW e, Sound(e), StateTyped, NEW r \in Regs
    PROVE  Copied(e, CopyOut(e, r).to, r, CopyOut(e, r).local)
<1> DEFINE v == CurrentFull(e, r)
           copied == AddLocal(e, r, v)
           l == Newest(copied, r)
           p == Prefix(l, EAX)
           d == Pends(e, r)
           f == RecordCurrentFull(copied, r, l)
<1>1. v \in Values
  BY LayerValues
<1>2. /\ Sound(copied) /\ Extends(e, copied)
      /\ \A q \in Regs : SameLayers(e, copied, q)
      /\ l \in Locals(copied) /\ At(copied, l) = v /\ l # NoLocal
      /\ \A q \in Regs, b \in BOOLEAN :
           LayerPrefix(copied, q, b).local # l /\ LayerCell(copied, q, b) # l
  BY <1>1, LocalAdded
<1>3. d \in BOOLEAN
  BY DEF Pends
<1>4. d = Pends(copied, r)
  <2>1. copied.pending[r] = e.pending[r] /\ copied.pendingCell[r] = e.pendingCell[r]
    BY <1>2 DEF SameLayers, LayerPrefix, LayerCell
  <2> QED BY <2>1 DEF Pends
<1>5. p \in PrefixRecords /\ NoLocal \in LocalNames
  BY <1>2, LocalTyped DEF Sound, PrefixRecords, Prefix, Covers, LocalNames
<1>6. Updated(copied, f, r, d, p, NoLocal)
  <2>1. f = SetCell(Record(copied, r, p, d), r, NoLocal, d)
    BY <1>4 DEF RecordCurrentFull, Pends
  <2> HIDE DEF f, p, d, copied
  <2> QED BY <1>2, <1>3, <1>5, <2>1, LayerReplaced DEF Sound
<1>7. Fits(copied, r, d, p, NoLocal)
  <2>1. SoundLayer(copied, r, p, NoLocal)
    BY <1>2, <1>5 DEF SoundLayer, Prefix, EAX
  <2>2. p.local = l
    BY DEF Prefix
  <2> QED BY <1>2, <2>1, <2>2 DEF Fits
<1> HIDE DEF v, copied, l, p, d, f
<1>8. Within(copied, f, r, d) /\ Extends(copied, f)
  BY <1>2, <1>3, <1>6, <1>7, LayerUpdated
<1>9. SameValues(e, copied, r) /\ Others(e, copied, r)
  BY <1>2, ValuesKept DEF Others
<1>10. Within(e, copied, r, d)
  BY <1>2, <1>9 DEF Within, SameLayers, SameValues, Below
<1>11. Within(e, f, r, d)
  BY <1>8, <1>10, WithinTransitive
<1>12. Extends(e, f) /\ l \in Locals(f) /\ At(f, l) = v
  BY <1>2, <1>8 DEF Extends
<1>13. LayerPrefix(f, r, d) = p /\ LayerCell(f, r, d) = NoLocal
  BY <1>6 DEF Updated
<1>14. \A q \in Regs, b \in BOOLEAN : LayerCell(f, q, b) # l
  BY <1>2, <1>6 DEF Updated
<1>15. p.covers = Segments /\ p.local = l
  BY DEF p, Prefix, Segments
<1>16. Resolve(f, p, NoLocal, Below(f, r, d)) = v
  BY <1>1, <1>12, <1>15 DEF Resolve, Values
<1>17. SoundLayer(e, r, e.pending[r], e.pendingCell[r])
  BY LayersSound
<1>18. ~d => LayerPrefix(e, r, TRUE).covers = {} /\ LayerCell(e, r, TRUE) = NoLocal
  BY <1>17 DEF d, Pends, SoundLayer, LayerPrefix, LayerCell
<1>19. Top(e, r, d) /\ Top(f, r, d)
  <2>1. CASE d
    BY <2>1 DEF Top
  <2>2. CASE ~d
    <3>1. d = FALSE
      BY <1>3, <2>2
    <3>2. LayerPrefix(f, r, TRUE) = LayerPrefix(e, r, TRUE) /\ LayerCell(f, r, TRUE) = LayerCell(e, r, TRUE)
      BY <1>11, <3>1 DEF Within
    <3> QED BY <1>18, <2>2, <3>2 DEF Top
  <2> QED BY <2>1, <2>2
<1>20. CurrentFull(f, r) = v
  BY <1>3, <1>11, <1>13, <1>16, <1>19, TopValue DEF Within
<1>21. CommittedFull(f, r) = CommittedFull(e, r)
  <2>1. CASE d
    BY <1>11, <2>1 DEF Within, Below
  <2>2. CASE ~d
    <3>1. Top(e, r, FALSE)
      BY <1>18, <2>2 DEF Top
    <3>2. v = CommittedFull(e, r)
      BY <3>1, TopValue, LayerValues DEF v, Below
    <3>3. LayerPrefix(f, r, FALSE) = p /\ LayerCell(f, r, FALSE) = NoLocal /\ Below(f, r, d) = memory[r]
      BY <1>13, <2>2 DEF LayerPrefix, LayerCell, Below
    <3>4. CommittedFull(f, r) = Resolve(f, p, NoLocal, Below(f, r, d))
      BY <1>11, <3>3, LayerValues DEF Within
    <3> QED BY <1>16, <3>2, <3>4
  <2> QED BY <2>1, <2>2
<1>22. Copied(e, f, r, l)
  BY <1>11, <1>12, <1>13, <1>14, <1>20, <1>21 DEF Copied, SameValues, v, p, d
<1> QED BY <1>22 DEF CopyOut, f, l, copied, v

\* f is e after a read of r.
Kept(e, f, r) == f = e \/ \E l : Copied(e, f, r, l)

\* A read leaves every value, every other register, and the locals as they are.
LEMMA KeptValues ==
    ASSUME NEW e, Sound(e), NEW r \in Regs, NEW f, Kept(e, f, r)
    PROVE  /\ Within(e, f, r, Pends(e, r))
           /\ Extends(e, f)
           /\ \A q \in Regs : SameValues(e, f, q)
<1>1. CASE f = e
  BY <1>1 DEF Within, Extends, Others, SameValues, SameLayers
<1>2. CASE \E l : Copied(e, f, r, l)
  BY <1>2 DEF Copied, Within, Others
<1> QED BY <1>1, <1>2 DEF Kept

\* The current value, in a local.
LEMMA FullMaterialized ==
    ASSUME NEW e, Sound(e), StateTyped, NEW r \in Regs,
           NEW m, m = MaterializeCurrentFull(e, r)
    PROVE  /\ Kept(e, m.to, r)
           /\ m.local \in Locals(m.to)
           /\ At(m.to, m.local) = CurrentFull(e, r)
<1> DEFINE source == CurrentSource(e, r, EAX)
<1>1. CASE source.covers # {}
  <2>1. m = [to |-> e, local |-> source.local]
    BY <1>1 DEF MaterializeCurrentFull
  <2>2. source.local \in Locals(e) /\ Agree(At(e, source.local), CurrentFull(e, r), EAX)
    BY <1>1, SourceRight DEF Aliases
  <2>3. At(e, source.local) \in Values /\ CurrentFull(e, r) \in Values
    BY <2>2, LocalTyped, LayerValues DEF Sound
  <2>4. At(e, source.local) = CurrentFull(e, r)
    BY <2>2, <2>3, ValuesEqual DEF Agree, Segments
  <2> QED BY <2>1, <2>2, <2>4 DEF Kept
<1>2. CASE source.covers = {} /\ UncoveredCell(e, r) # NoLocal
  <2>1. m = [to |-> e, local |-> UncoveredCell(e, r)]
    BY <1>2 DEF MaterializeCurrentFull
  <2> QED BY <1>2, <2>1, UncoveredRight DEF Kept
<1>3. CASE source.covers = {} /\ UncoveredCell(e, r) = NoLocal
  <2>1. m = CopyOut(e, r)
    BY <1>3 DEF MaterializeCurrentFull
  <2> QED BY <2>1, CopyOutCopies DEF Kept, Copied
<1> QED BY <1>1, <1>2, <1>3

\* ... in one that no later write updates.
LEMMA StableCopyRight ==
    ASSUME NEW e, Sound(e), StateTyped, NEW r \in Regs,
           NEW m, m = EnsureStableFullValueForCopy(e, r)
    PROVE  /\ Kept(e, m.to, r)
           /\ m.local \in Locals(m.to)
           /\ At(m.to, m.local) = CurrentFull(e, r)
           /\ \A q \in Regs, b \in BOOLEAN : LayerCell(m.to, q, b) # m.local
<1> DEFINE source == CurrentSource(e, r, EAX)
<1>1. CASE source.covers # {}
  <2>1. m = [to |-> e, local |-> source.local]
    BY <1>1 DEF EnsureStableFullValueForCopy
  <2>2. m = MaterializeCurrentFull(e, r)
    BY <1>1, <2>1 DEF MaterializeCurrentFull
  <2>3. source \in {LayerPrefix(e, r, TRUE), LayerPrefix(e, r, FALSE)} /\ source.local \in Locals(e)
    BY <1>1, SourceRight DEF Aliases, LayerPrefix
  <2>4. source.local # NoLocal
    BY <2>3, LocalTyped DEF Sound
  <2>5. \A q \in Regs, b \in BOOLEAN : LayerCell(e, q, b) # source.local
    BY <2>3, <2>4 DEF Sound, PrivateCell
  <2> QED BY <2>1, <2>2, <2>5, FullMaterialized
<1>2. CASE source.covers = {}
  <2>1. SoundLayer(e, r, e.committed[r], e.cell[r]) /\ SoundLayer(e, r, e.pending[r], e.pendingCell[r])
    BY LayersSound
  <2>2. ASSUME ~UsesMutableCell(e, r)
        PROVE  UncoveredCell(e, r) = NoLocal
    <3>1. e.pendingCell[r] = NoLocal
      BY <2>2 DEF UsesMutableCell
    <3>2. CASE e.cell[r] = NoLocal
      BY <3>1, <3>2 DEF UncoveredCell
    <3>3. CASE e.cell[r] # NoLocal
      <4>1. e.pending[r].covers = EAX
        BY <2>2, <3>3 DEF UsesMutableCell
      <4> QED BY <4>1 DEF UncoveredCell, EAX
    <3> QED BY <3>2, <3>3
  <2>3. m = CopyOut(e, r)
    BY <1>2, <2>2 DEF EnsureStableFullValueForCopy, MaterializeCurrentFull
  <2> QED BY <2>3, CopyOutCopies DEF Kept, Copied
<1> QED BY <1>1, <1>2

\* A read of an alias yields the current value of its register there.
LEMMA ReadRight ==
    ASSUME NEW e, Sound(e), StateTyped, NEW r \in Regs, NEW alias \in Aliases,
           NEW g, g = ReadAlias(e, r, alias)
    PROVE  /\ Kept(e, g.to, r)
           /\ Agree(g.value, CurrentFull(e, r), alias)
<1> DEFINE source == CurrentSource(e, r, alias)
           full == MaterializeCurrentFull(e, r)
<1>1. CASE source.covers # {}
  <2>1. g = [to |-> e, value |-> At(e, source.local)]
    BY <1>1 DEF ReadAlias
  <2> QED BY <1>1, <2>1, SourceRight DEF Kept
<1>2. CASE source.covers = {} /\ alias # EAX /\ CanLoadFromState(e, r, alias)
  <2>1. g = [to |-> e, value |-> memory[r]]
    BY <1>2 DEF ReadAlias
  <2>2. SoundLayer(e, r, e.committed[r], e.cell[r]) /\ SoundLayer(e, r, e.pending[r], e.pendingCell[r])
    BY LayersSound
  <2>3. /\ e.cell[r] = NoLocal /\ e.pendingCell[r] = NoLocal
        /\ \A s \in alias : s \notin e.pending[r].covers /\ s \notin e.committed[r].covers
    BY <1>2, <2>2 DEF CanLoadFromState, Overlaps, SoundLayer
  <2>4. alias \subseteq Segments
    BY DEF Aliases, Segments, AL, AH, AX, EAX
  <2>5. \A s \in alias : CurrentFull(e, r)[s] = memory[r][s]
    BY <2>3, <2>4, ValueOfSegment
  <2> QED BY <2>1, <2>5 DEF Kept, Agree
<1>3. CASE source.covers = {} /\ ~(alias # EAX /\ CanLoadFromState(e, r, alias))
  <2>1. g = [to |-> full.to, value |-> At(full.to, full.local)]
    BY <1>3 DEF ReadAlias
  <2> QED BY <2>1, FullMaterialized DEF Agree
<1> QED BY <1>1, <1>2, <1>3

-----------------------------------------------------------------------------
(* Writes.                                                                 *)

\* Preparing a layer for a write gives it an entry, and changes nothing else.
LEMMA TouchRight ==
    ASSUME NEW e, Sound(e), StateTyped, NEW r \in Regs, NEW b \in BOOLEAN,
           b = PreserveCommitted, NEW f, f = Touch(e, r)
    PROVE  /\ Within(e, f, r, b)
           /\ Extends(e, f)
           /\ LayerPrefix(f, r, b).present
           /\ LayerPrefix(f, r, b).covers = LayerPrefix(e, r, b).covers
           /\ LayerPrefix(f, r, b).local = LayerPrefix(e, r, b).local
           /\ LayerCell(f, r, b) = LayerCell(e, r, b)
           /\ SameValues(e, f, r)
<1>1. SoundLayer(e, r, LayerPrefix(e, r, b), LayerCell(e, r, b)) /\ e \in Emitters
  BY DEF Sound
<1>2. CASE LayerPrefix(e, r, b).present
  <2>1. f = e
    BY <1>2 DEF Touch, LayerPrefix
  <2> QED BY <1>2, <2>1 DEF Within, Extends, Others, SameValues, SameLayers
<1>3. CASE ~LayerPrefix(e, r, b).present
  <2>1. f = Record(e, r, Unknown, b)
    BY <1>3 DEF Touch, LayerPrefix
  <2>2. LayerPrefix(e, r, b).covers = {} /\ LayerPrefix(e, r, b).local = NoLocal /\ LayerCell(e, r, b) = NoLocal
    BY <1>1, <1>3 DEF SoundLayer
  <2>3. Unknown \in PrefixRecords /\ Unknown.present /\ Unknown.covers = {} /\ Unknown.local = NoLocal
    BY DEF Unknown, PrefixRecords, Covers, LocalNames
  <2>4. Updated(e, f, r, b, Unknown, NoLocal)
    BY <1>1, <2>1, <2>2, <2>3, RecordUpdates
  <2>5. Fits(e, r, b, Unknown, NoLocal)
    BY <2>3 DEF Fits, SoundLayer
  <2>6. Within(e, f, r, b) /\ Extends(e, f)
    BY <2>4, <2>5, LayerUpdated
  <2>7. LayerPrefix(f, r, b) = Unknown /\ LayerCell(f, r, b) = NoLocal
    BY <2>4 DEF Updated
  <2>8. \A d \in BOOLEAN : \A below :
           Resolve(f, LayerPrefix(f, r, d), LayerCell(f, r, d), below) =
           Resolve(e, LayerPrefix(e, r, d), LayerCell(e, r, d), below)
    <3>1. ASSUME NEW d \in BOOLEAN, NEW below
          PROVE  Resolve(f, LayerPrefix(f, r, d), LayerCell(f, r, d), below) =
                 Resolve(e, LayerPrefix(e, r, d), LayerCell(e, r, d), below)
      <4>1. CASE d = b
        BY <2>2, <2>3, <2>7, <4>1 DEF Resolve
      <4>2. CASE d # b
        BY <2>4, <2>6, <4>2, ResolveKept DEF Updated, Sound
      <4> QED BY <4>1, <4>2
    <3> QED BY <3>1
  <2> QED BY <2>2, <2>3, <2>6, <2>7, <2>8, SameCoverage DEF Within
<1> QED BY <1>2, <1>3

\* A layer's value is kept when the locals it names are.
LEMMA ResolveSame ==
    ASSUME NEW e, NEW f, NEW p, NEW c, NEW below,
           p.covers # {} => At(f, p.local) = At(e, p.local),
           c # NoLocal => At(f, c) = At(e, c)
    PROVE  Resolve(f, p, c, below) = Resolve(e, p, c, below)
BY DEF Resolve

\* A new local, as a change within a layer.
LEMMA AddedWithin ==
    ASSUME NEW e, Sound(e), StateTyped, NEW r \in Regs, NEW b \in BOOLEAN, NEW v \in Values,
           NEW f, f = AddLocal(e, r, v)
    PROVE  /\ Within(e, f, r, b)
           /\ Extends(e, f)
           /\ \A q \in Regs : SameLayers(e, f, q) /\ SameValues(e, f, q)
<1>1. Sound(f) /\ Extends(e, f) /\ \A q \in Regs : SameLayers(e, f, q)
  BY LocalAdded
<1>2. \A q \in Regs : SameValues(e, f, q)
  BY <1>1, ValuesKept
<1> QED BY <1>1, <1>2 DEF Within, Others, SameLayers, SameValues, Below

\* A write through a cell changes the layer of that cell: the cell is private.
LEMMA CellWithin ==
    ASSUME NEW e, Sound(e), StateTyped, NEW r \in Regs, NEW b \in BOOLEAN,
           NEW c, c = LayerCell(e, r, b), c # NoLocal, NEW v \in Values,
           NEW f, f = SetLocal(e, c, v)
    PROVE  /\ Within(e, f, r, b)
           /\ SameLayers(e, f, r)
           /\ At(f, c) = v
<1>1. /\ Sound(f)
      /\ \A l \in Locals(e) : l \in Locals(f) /\ (l # c => At(f, l) = At(e, l))
      /\ At(f, c) = v
      /\ \A q \in Regs : SameLayers(e, f, q)
  BY CellUpdated
<1>2. PrivateCell(e, r, b)
  BY DEF Sound
<1>3. ASSUME NEW q \in Regs, NEW d \in BOOLEAN, q # r \/ d # b, NEW below
      PROVE  Resolve(f, LayerPrefix(f, q, d), LayerCell(f, q, d), below) =
             Resolve(e, LayerPrefix(e, q, d), LayerCell(e, q, d), below)
  <2>1. SoundLayer(e, q, LayerPrefix(e, q, d), LayerCell(e, q, d))
    BY DEF Sound
  <2>2. LayerPrefix(e, q, d).local # c /\ LayerCell(e, q, d) # c
    BY <1>2, <1>3 DEF PrivateCell
  <2>3. LayerPrefix(e, q, d).covers # {} =>
          At(f, LayerPrefix(e, q, d).local) = At(e, LayerPrefix(e, q, d).local)
    BY <1>1, <2>1, <2>2 DEF SoundLayer
  <2>4. LayerCell(e, q, d) # NoLocal => At(f, LayerCell(e, q, d)) = At(e, LayerCell(e, q, d))
    BY <1>1, <2>1, <2>2, LocalNamed DEF SoundLayer
  <2>5. LayerPrefix(f, q, d) = LayerPrefix(e, q, d) /\ LayerCell(f, q, d) = LayerCell(e, q, d)
    BY <1>1 DEF SameLayers
  <2> QED BY <2>3, <2>4, <2>5, ResolveSame
<1>4. Others(e, f, r)
  <2>1. ASSUME NEW q \in Regs, q # r
        PROVE  SameValues(e, f, q)
    BY <1>1, <1>3, <2>1, SameCoverage
  <2> QED BY <1>1, <2>1 DEF Others
<1>5. Below(f, r, b) = Below(e, r, b)
  <2>1. CASE b
    <3>1. FALSE # b
      BY <2>1
    <3>2. \A below : Resolve(f, LayerPrefix(f, r, FALSE), LayerCell(f, r, FALSE), below) =
                     Resolve(e, LayerPrefix(e, r, FALSE), LayerCell(e, r, FALSE), below)
      BY <1>3, <3>1
    <3>3. CommittedFull(f, r) = CommittedFull(e, r)
      BY <1>1, <3>2, CommittedSame
    <3> QED BY <2>1, <3>3 DEF Below
  <2>2. CASE ~b
    BY <2>2 DEF Below
  <2> QED BY <2>1, <2>2
<1> QED BY <1>1, <1>4, <1>5 DEF Within, SameLayers

\* A prefix that is recorded hides what the layer knew.
LEMMA PrefixRecorded ==
    ASSUME NEW g, Sound(g), StateTyped, NEW r \in Regs, NEW b \in BOOLEAN, Top(g, r, b),
           NEW l \in Locals(g), NEW a \in {AL, AX, EAX},
           \A q \in Regs, d \in BOOLEAN : LayerCell(g, q, d) # l,
           a = EAX => LayerCell(g, r, b) = NoLocal,
           NEW f, f = Record(g, r, Prefix(l, a), b)
    PROVE  /\ Within(g, f, r, b)
           /\ LayerPrefix(f, r, b) = Prefix(l, a)
           /\ LayerCell(f, r, b) = LayerCell(g, r, b)
           /\ CurrentFull(f, r) = Resolve(g, Prefix(l, a), LayerCell(g, r, b), Below(g, r, b))
<1> DEFINE p == Prefix(l, a)
           c == LayerCell(g, r, b)
<1>1. p \in PrefixRecords /\ p.present /\ p.covers = a /\ p.local = l /\ a # {}
  BY LocalTyped DEF Sound, PrefixRecords, Prefix, Covers, AL, AX, EAX
<1>2. Updated(g, f, r, b, p, c)
  BY <1>1, RecordUpdates DEF Sound
<1>3. SoundLayer(g, r, LayerPrefix(g, r, b), c) /\ PrivateCell(g, r, b)
  BY DEF Sound
<1>4. SoundLayer(g, r, p, c)
  BY <1>1, <1>3 DEF SoundLayer
<1>5. Fits(g, r, b, p, c)
  BY <1>1, <1>3, <1>4 DEF Fits, PrivateCell
<1> HIDE DEF p, c
<1>6. Within(g, f, r, b) /\ Extends(g, f)
  BY <1>2, <1>5, LayerUpdated
<1>7. LayerPrefix(f, r, b) = p /\ LayerCell(f, r, b) = c /\ Below(f, r, b) = Below(g, r, b)
  BY <1>2, <1>6 DEF Updated, Within
<1>8. Top(f, r, b)
  BY <1>6, TopKept
<1>9. CurrentFull(f, r) = Resolve(f, p, c, Below(g, r, b))
  BY <1>6, <1>7, <1>8, TopValue DEF Within
<1>10. Resolve(f, p, c, Below(g, r, b)) = Resolve(g, p, c, Below(g, r, b))
  BY <1>4, <1>6, ResolveKept
<1> QED BY <1>6, <1>7, <1>9, <1>10 DEF p, c

\* Forgetting a layer's cell.
LEMMA CellCleared ==
    ASSUME NEW g, Sound(g), StateTyped, NEW r \in Regs, NEW b \in BOOLEAN,
           NEW f, f = SetCell(g, r, NoLocal, b)
    PROVE  /\ Within(g, f, r, b)
           /\ Extends(g, f)
           /\ LayerPrefix(f, r, b) = LayerPrefix(g, r, b)
           /\ LayerCell(f, r, b) = NoLocal
           /\ \A q \in Regs, d \in BOOLEAN :
                LayerCell(f, q, d) # NoLocal => LayerCell(f, q, d) = LayerCell(g, q, d)
           /\ LayerCell(g, r, b) = NoLocal => SameValues(g, f, r)
<1> DEFINE p == LayerPrefix(g, r, b)
<1>1. SoundLayer(g, r, p, LayerCell(g, r, b)) /\ NoLocal \in LocalNames
  BY DEF Sound, LocalNames
<1>2. Updated(g, f, r, b, p, NoLocal)
  BY <1>1, SetCellUpdates DEF Sound
<1>3. SoundLayer(g, r, p, NoLocal)
  BY <1>1 DEF SoundLayer
<1>4. ASSUME NEW q \in Regs, NEW d \in BOOLEAN, q # r \/ d # b, LayerCell(g, q, d) # NoLocal
      PROVE  LayerCell(g, q, d) # p.local
  BY <1>4 DEF Sound, PrivateCell
<1>5. Fits(g, r, b, p, NoLocal)
  BY <1>3, <1>4 DEF Fits
<1> HIDE DEF p
<1>6. Within(g, f, r, b) /\ Extends(g, f)
  BY <1>2, <1>5, LayerUpdated
<1>7. \A q \in Regs, d \in BOOLEAN :
        LayerCell(f, q, d) # NoLocal => LayerCell(f, q, d) = LayerCell(g, q, d)
  BY <1>2 DEF Updated
<1>8. ASSUME LayerCell(g, r, b) = NoLocal
      PROVE  SameValues(g, f, r)
  <2>1. SameLayers(g, f, r)
    BY <1>2, <1>8 DEF Updated, SameLayers, p
  <2> QED BY <1>6, <2>1, ValuesKept DEF Within
<1> QED BY <1>2, <1>6, <1>7, <1>8 DEF Updated, p

-----------------------------------------------------------------------------
(* The register writes.  The layer that is written is the one the code     *)
(* calls writable.                                                         *)

\* A pending layer holds what the committed one knows, so that it can take
\* its place, or has a cell of its own.
Whole(e, r) ==
    \/ e.pendingCell[r] # NoLocal
    \/ /\ e.pending[r].covers # {}
       /\ e.committed[r].covers \subseteq e.pending[r].covers
       /\ e.pending[r].covers # EAX => e.cell[r] = NoLocal

\* The layers of a register between two operations.
Settled(e, r) ==
    /\ e.pending[r].present => PreserveCommitted /\ Whole(e, r)
    /\ \A b \in BOOLEAN : LayerCell(e, r, b) # NoLocal => HasCells(block)

\* What an operation on r that writes v leaves.
Wrote(e, f, r, b, v) ==
    /\ Within(e, f, r, b)
    /\ CurrentFull(f, r) = v
    /\ LayerPrefix(f, r, b).present
    /\ b => Whole(f, r)
    /\ LayerCell(f, r, b) # NoLocal => HasCells(block)

WrittenTyped == arch \in [Regs -> Values] /\ written + 1 \in Tokens

\* The layer that is written is the top one.
LEMMA WritableTop ==
    ASSUME NEW e, Sound(e), NEW r \in Regs, Settled(e, r), NEW b \in BOOLEAN,
           b = PreserveCommitted
    PROVE  /\ Top(e, r, b)
           /\ ~b => ~Pends(e, r)
<1>1. SoundLayer(e, r, e.pending[r], e.pendingCell[r])
  BY LayersSound
<1>2. ~b => ~e.pending[r].present
  BY DEF Settled
<1> QED BY <1>1, <1>2 DEF Top, Pends, SoundLayer, LayerPrefix, LayerCell

\* Once the written layer has an entry, a read copies to that layer.
LEMMA PendsWritten ==
    ASSUME NEW e, Sound(e), NEW r \in Regs, Settled(e, r), NEW b \in BOOLEAN,
           b = PreserveCommitted, NEW f, Within(e, f, r, b), LayerPrefix(f, r, b).present
    PROVE  Pends(f, r) = b
<1>1. CASE b
  BY <1>1 DEF Pends, LayerPrefix
<1>2. CASE ~b
  <2>1. ~Pends(e, r) /\ TRUE # b
    BY <1>2, WritableTop
  <2>2. LayerPrefix(f, r, TRUE) = LayerPrefix(e, r, TRUE) /\ LayerCell(f, r, TRUE) = LayerCell(e, r, TRUE)
    BY <2>1 DEF Within
  <2> QED BY <1>2, <2>1, <2>2 DEF Pends, LayerPrefix, LayerCell
<1> QED BY <1>1, <1>2

\* What is written is what the program computes, when its read is right.
LEMMA EmitRight ==
    ASSUME NEW e, Sound(e), StateTyped, NEW r \in Regs, NEW read \in Aliases \cup {{}},
           read # {} => CurrentFull(e, r) = arch[r],
           NEW g, g = EmitValue(e, r, read)
    PROVE  g.token = written + 1 /\ Kept(e, g.to, r)
<1>1. CASE read = {}
  BY <1>1 DEF EmitValue, Kept
<1>2. CASE read # {}
  <2>1. read \in Aliases
    BY <1>2
  <2>2. Kept(e, ReadAlias(e, r, read).to, r) /\ Agree(ReadAlias(e, r, read).value, arch[r], read)
    BY <1>2, <2>1, ReadRight
  <2> QED BY <1>2, <2>2 DEF EmitValue
<1> QED BY <1>1, <1>2

\* A value made of one token, or with one put in, is a value.
LEMMA OverlayTyped ==
    ASSUME NEW v \in Values, NEW t \in Tokens, NEW a
    PROVE  /\ Fill(t) \in Values
           /\ Overlay(v, Fill(t), a) \in Values
BY DEF Values, Fill, Overlay

\* A read is a change within the layer that holds the current value.
LEMMA KeptWithin ==
    ASSUME NEW e, NEW f, NEW r \in Regs, NEW b \in BOOLEAN, Sound(e), Kept(e, f, r),
           b = Pends(e, r)
    PROVE  /\ Within(e, f, r, b)
           /\ LayerPrefix(f, r, b).present \/ f = e
           /\ LayerCell(f, r, b) = NoLocal \/ f = e
<1>1. CASE f = e
  BY <1>1 DEF Within, Others, SameValues, SameLayers
<1>2. CASE \E l : Copied(e, f, r, l)
  BY <1>2 DEF Copied, Prefix
<1> QED BY <1>1, <1>2 DEF Kept

\* A write of all bits forgets the cell, emits the value and records it.  A
\* value that reads its own register needs the cell: there must be none.
LEMMA FullWritten ==
    ASSUME NEW e, Sound(e), StateTyped, WrittenTyped, NEW r \in Regs, Settled(e, r),
           CurrentFull(e, r) = arch[r],
           NEW b \in BOOLEAN, b = PreserveCommitted, NEW read \in Aliases \cup {{}},
           read # {} => LayerCell(e, r, b) = NoLocal
    PROVE  /\ Wrote(e, WriteFull(e, r, read), r, b, Fill(written + 1))
           /\ LayerPrefix(WriteFull(e, r, read), r, b).covers = EAX
           /\ LayerCell(WriteFull(e, r, read), r, b) = NoLocal
<1> DEFINE touched == Touch(e, r)
           cleared == SetCell(touched, r, NoLocal, PreserveCommitted)
           emitted == EmitValue(cleared, r, read)
           stored == AddLocal(emitted.to, r, Fill(emitted.token))
           l == Newest(stored, r)
           f == Record(stored, r, Prefix(l, EAX), PreserveCommitted)
<1>1. /\ Within(e, touched, r, b) /\ SameValues(e, touched, r)
      /\ LayerPrefix(touched, r, b).present /\ LayerCell(touched, r, b) = LayerCell(e, r, b)
  BY TouchRight
<1>2. Sound(touched)
  BY <1>1 DEF Within
<1> HIDE DEF touched
<1>3. /\ Within(touched, cleared, r, b)
      /\ LayerPrefix(cleared, r, b).present /\ LayerCell(cleared, r, b) = NoLocal
      /\ LayerCell(touched, r, b) = NoLocal => SameValues(touched, cleared, r)
  BY <1>1, <1>2, CellCleared
<1>4. Sound(cleared)
  BY <1>3 DEF Within
<1> HIDE DEF cleared
<1>5. read # {} => CurrentFull(cleared, r) = arch[r]
  BY <1>1, <1>3 DEF SameValues
<1>6. emitted.token = written + 1 /\ Kept(cleared, emitted.to, r)
  BY <1>4, <1>5, EmitRight
<1>7. Top(e, r, b) /\ Within(e, cleared, r, b)
  BY <1>1, <1>3, WritableTop, WithinTransitive
<1>8. Pends(cleared, r) = b
  BY <1>3, <1>7, PendsWritten
<1>9. /\ Within(cleared, emitted.to, r, b)
      /\ LayerCell(emitted.to, r, b) = NoLocal
  BY <1>3, <1>4, <1>6, <1>8, KeptWithin
<1>10. Sound(emitted.to) /\ Within(e, emitted.to, r, b)
  BY <1>7, <1>9, WithinTransitive DEF Within
<1>11. Fill(emitted.token) \in Values
  BY <1>6, OverlayTyped DEF WrittenTyped, Fill, Values
<1>12. /\ Within(emitted.to, stored, r, b)
       /\ LayerCell(stored, r, b) = NoLocal
       /\ l \in Locals(stored) /\ At(stored, l) = Fill(written + 1)
       /\ \A q \in Regs, d \in BOOLEAN : LayerCell(stored, q, d) # l
  <2>1. Within(emitted.to, stored, r, b) /\ SameLayers(emitted.to, stored, r)
    BY <1>10, <1>11, AddedWithin
  <2>2. /\ l \in Locals(stored) /\ At(stored, l) = Fill(emitted.token)
        /\ \A q \in Regs, d \in BOOLEAN : LayerCell(stored, q, d) # l
    BY <1>10, <1>11, LocalAdded
  <2> QED BY <1>6, <1>9, <2>1, <2>2 DEF SameLayers
<1>13. Sound(stored) /\ Within(e, stored, r, b)
  BY <1>10, <1>12, WithinTransitive DEF Within
<1>14. Top(stored, r, b)
  BY <1>7, <1>13, TopKept
<1> HIDE DEF stored, l
<1>15. /\ Within(stored, f, r, b)
       /\ LayerPrefix(f, r, b) = Prefix(l, EAX)
       /\ LayerCell(f, r, b) = NoLocal
       /\ CurrentFull(f, r) = Resolve(stored, Prefix(l, EAX), LayerCell(stored, r, b), Below(stored, r, b))
  BY <1>12, <1>13, <1>14, PrefixRecorded
<1>16. CurrentFull(f, r) = Fill(written + 1)
  BY <1>12, <1>15 DEF Resolve, Prefix, Fill, Segments
<1>17. Within(e, f, r, b)
  BY <1>13, <1>15, WithinTransitive
<1>18. LayerPrefix(f, r, b).present /\ LayerPrefix(f, r, b).covers = EAX
  BY <1>15 DEF Prefix
<1>19. f = WriteFull(e, r, read)
  BY DEF WriteFull, l, stored, cleared, touched
<1> HIDE DEF f
<1>20. b => Whole(f, r)
  <2>1. ASSUME b
        PROVE  Whole(f, r)
    <3>1. f.pending[r].covers = EAX
      BY <1>18, <2>1 DEF LayerPrefix
    <3>2. Sound(f)
      BY <1>17 DEF Within
    <3>3. f.committed[r].covers \in Covers
      BY <3>2, LayersSound DEF SoundLayer, PrefixRecords
    <3> QED BY <3>1, <3>3 DEF Whole, Covers, AL, AX, EAX
  <2> QED BY <2>1
<1> QED BY <1>15, <1>16, <1>17, <1>18, <1>19, <1>20 DEF Wrote

\* A cell under no prefix, in the top layer, holds the current value.
LEMMA CellValue ==
    ASSUME NEW e, Sound(e), StateTyped, NEW r \in Regs, NEW b \in BOOLEAN, Top(e, r, b),
           LayerPrefix(e, r, b).covers = {}, LayerCell(e, r, b) # NoLocal
    PROVE  CurrentFull(e, r) = At(e, LayerCell(e, r, b))
<1>1. LayerCell(e, r, b) \in Locals(e)
  BY LocalNamed DEF Sound, SoundLayer
<1>2. At(e, LayerCell(e, r, b)) \in Values
  BY <1>1, LocalTyped DEF Sound
<1>3. Resolve(e, LayerPrefix(e, r, b), LayerCell(e, r, b), Below(e, r, b)) = At(e, LayerCell(e, r, b))
  BY <1>2 DEF Resolve, Values
<1> QED BY <1>3, TopValue

\* ensureMutableCell: the cell of the written layer has the current value.
LEMMA CellEnsured ==
    ASSUME NEW e, Sound(e), StateTyped, NEW r \in Regs, Settled(e, r),
           NEW b \in BOOLEAN, b = PreserveCommitted,
           NEW ready, ready = EnsureMutableCell(e, r)
    PROVE  /\ Within(e, ready, r, b)
           /\ CurrentFull(ready, r) = CurrentFull(e, r)
           /\ LayerPrefix(ready, r, b).present /\ LayerPrefix(ready, r, b).covers = {}
           /\ LayerCell(ready, r, b) # NoLocal
<1> DEFINE touched == Touch(e, r)
           cell == WritableCell(e, r)
           v == CurrentFull(touched, r)
           refreshed == SetLocal(touched, cell, v)
           detached == AddLocal(touched, r, v)
           l == Newest(detached, r)
<1>1. /\ Within(e, touched, r, b) /\ SameValues(e, touched, r)
      /\ LayerPrefix(touched, r, b).present /\ LayerCell(touched, r, b) = LayerCell(e, r, b)
  BY TouchRight
<1>2. Sound(touched) /\ Top(touched, r, b) /\ v = CurrentFull(e, r)
  BY <1>1, WritableTop, TopKept DEF Within, SameValues
<1>3. v \in Values
  BY <1>2, LayerValues
<1>4. cell = LayerCell(touched, r, b)
  BY <1>1 DEF WritableCell, LayerCell
<1>5. Unknown \in PrefixRecords /\ Unknown.present /\ Unknown.covers = {} /\ Unknown.local = NoLocal
  BY DEF Unknown, PrefixRecords, Covers, LocalNames
<1>6. CASE cell = NoLocal
  <2>1. ready = SetCell(Record(detached, r, Unknown, b), r, l, b)
    BY <1>6 DEF EnsureMutableCell
  <2> HIDE DEF touched, v, cell
  <2>2. /\ Sound(detached) /\ l \in Locals(detached) /\ At(detached, l) = v /\ l # NoLocal
        /\ Own(detached, r, l)
        /\ \A q \in Regs, d \in BOOLEAN :
             LayerPrefix(detached, q, d).local # l /\ LayerCell(detached, q, d) # l
    BY <1>2, <1>3, LocalAdded
  <2>3. Within(touched, detached, r, b)
    BY <1>2, <1>3, AddedWithin
  <2> HIDE DEF detached, l
  <2>4. Updated(detached, ready, r, b, Unknown, l)
    <3>1. l \in LocalNames
      BY <2>2, LocalTyped DEF Sound
    <3> QED BY <1>5, <2>1, <2>2, <3>1, LayerReplaced DEF Sound
  <2>5. SoundLayer(detached, r, Unknown, l)
    BY <1>5, <2>2 DEF SoundLayer, EAX
  <2>6. Fits(detached, r, b, Unknown, l)
    BY <1>5, <2>2, <2>5 DEF Fits, Sound, PrivateCell
  <2>7. Within(detached, ready, r, b) /\ Extends(detached, ready)
    BY <2>2, <2>4, <2>6, LayerUpdated
  <2>8. Within(e, ready, r, b)
    BY <1>1, <2>3, <2>7, WithinTransitive
  <2>9. LayerPrefix(ready, r, b) = Unknown /\ LayerCell(ready, r, b) = l
    BY <2>4 DEF Updated
  <2>10. CurrentFull(ready, r) = At(ready, l)
    BY <1>5, <2>2, <2>8, <2>9, WritableTop, TopKept, CellValue DEF Within
  <2>11. At(ready, l) = v
    BY <2>2, <2>7 DEF Extends
  <2> QED BY <1>2, <1>5, <2>2, <2>8, <2>9, <2>10, <2>11
<1>7. CASE cell # NoLocal /\ LayerPrefix(touched, r, b).covers # {}
  <2>1. ready = Record(refreshed, r, Unknown, b)
    BY <1>7 DEF EnsureMutableCell, WritableState, LayerPrefix
  <2> HIDE DEF touched, v, cell
  <2>2. /\ Within(touched, refreshed, r, b) /\ SameLayers(touched, refreshed, r)
        /\ At(refreshed, cell) = v
    BY <1>2, <1>3, <1>4, <1>7, CellWithin
  <2>3. Sound(refreshed)
    BY <2>2 DEF Within
  <2> HIDE DEF refreshed
  <2>4. LayerCell(refreshed, r, b) = cell
    BY <1>4, <2>2 DEF SameLayers
  <2>5. Updated(refreshed, ready, r, b, Unknown, cell)
    BY <1>5, <2>1, <2>3, <2>4, RecordUpdates DEF Sound
  <2>6. SoundLayer(refreshed, r, LayerPrefix(refreshed, r, b), cell) /\ PrivateCell(refreshed, r, b)
    BY <2>3, <2>4 DEF Sound
  <2>7. SoundLayer(refreshed, r, Unknown, cell)
    BY <1>5, <2>6 DEF SoundLayer, EAX
  <2>8. ASSUME NEW q \in Regs, NEW d \in BOOLEAN, q # r \/ d # b
        PROVE  LayerPrefix(refreshed, q, d).local # cell /\ LayerCell(refreshed, q, d) # cell
    BY <1>7, <2>4, <2>6, <2>8 DEF PrivateCell
  <2>9. Fits(refreshed, r, b, Unknown, cell)
    BY <1>5, <1>7, <2>7, <2>8 DEF Fits
  <2>10. Within(refreshed, ready, r, b) /\ Extends(refreshed, ready)
    BY <2>3, <2>5, <2>9, LayerUpdated
  <2>11. Within(e, ready, r, b)
    BY <1>1, <2>2, <2>10, WithinTransitive
  <2>12. LayerPrefix(ready, r, b) = Unknown /\ LayerCell(ready, r, b) = cell
    BY <2>5 DEF Updated
  <2>13. CurrentFull(ready, r) = At(ready, cell)
    BY <1>5, <1>7, <2>11, <2>12, WritableTop, TopKept, CellValue DEF Within
  <2>14. cell \in Locals(refreshed)
    BY <1>7, <2>6, LocalNamed DEF SoundLayer
  <2>15. At(ready, cell) = v
    BY <2>2, <2>10, <2>14 DEF Extends
  <2> QED BY <1>2, <1>5, <1>7, <2>11, <2>12, <2>13, <2>15
<1>8. CASE cell # NoLocal /\ LayerPrefix(touched, r, b).covers = {}
  <2>1. ready = touched
    BY <1>8 DEF EnsureMutableCell, WritableState, LayerPrefix
  <2> QED BY <1>1, <1>2, <1>4, <1>8, <2>1
<1> QED BY <1>6, <1>7, <1>8

\* A write through the cell that was made ready.
LEMMA ThroughCell ==
    ASSUME NEW e, Sound(e), StateTyped, NEW r \in Regs, NEW b \in BOOLEAN, Top(e, r, b),
           LayerPrefix(e, r, b).present, LayerPrefix(e, r, b).covers = {},
           LayerCell(e, r, b) # NoLocal, NEW v \in Values,
           NEW f, f = SetLocal(e, LayerCell(e, r, b), v)
    PROVE  /\ Within(e, f, r, b) /\ SameLayers(e, f, r)
           /\ CurrentFull(f, r) = v
<1>1. Within(e, f, r, b) /\ SameLayers(e, f, r) /\ At(f, LayerCell(e, r, b)) = v
  BY CellWithin
<1>2. LayerPrefix(f, r, b) = LayerPrefix(e, r, b) /\ LayerCell(f, r, b) = LayerCell(e, r, b)
  BY <1>1 DEF SameLayers
<1> QED BY <1>1, <1>2, TopKept, CellValue DEF Within

\* A pending cell makes its layer whole.
LEMMA CellIsWhole ==
    ASSUME NEW e, NEW r, NEW b \in BOOLEAN, LayerCell(e, r, b) # NoLocal
    PROVE  b => Whole(e, r)
BY DEF LayerCell, Whole

\* A conditional write updates the cell, or leaves it.
LEMMA ConditionallyWritten ==
    ASSUME NEW e, Sound(e), StateTyped, WrittenTyped, NEW r \in Regs, Settled(e, r),
           CurrentFull(e, r) = arch[r], NEW b \in BOOLEAN, b = PreserveCommitted,
           HasCells(block), NEW alias, NEW holds \in BOOLEAN
    PROVE  Wrote(e, EmitWriteAliasIf(e, r, alias, holds), r, b,
                 IF holds THEN Overlay(arch[r], Fill(written + 1), alias) ELSE arch[r])
<1> DEFINE ready == EnsureMutableCell(e, r)
           v == Overlay(arch[r], Fill(written + 1), alias)
           f == SetLocal(ready, LayerCell(ready, r, b), v)
<1>1. /\ Within(e, ready, r, b)
      /\ CurrentFull(ready, r) = arch[r]
      /\ LayerPrefix(ready, r, b).present /\ LayerPrefix(ready, r, b).covers = {}
      /\ LayerCell(ready, r, b) # NoLocal
  BY CellEnsured
<1> HIDE DEF ready
<1>2. Sound(ready) /\ Top(ready, r, b)
  BY <1>1, WritableTop, TopKept DEF Within
<1>3. WritableCell(ready, r) = LayerCell(ready, r, b)
  BY DEF WritableCell, LayerCell
<1>4. At(ready, LayerCell(ready, r, b)) = arch[r]
  BY <1>1, <1>2, CellValue
<1>5. v \in Values
  BY OverlayTyped DEF WrittenTyped
<1>6. CASE holds
  <2>1. f = EmitWriteAliasIf(e, r, alias, holds)
    BY <1>3, <1>4, <1>6 DEF EmitWriteAliasIf, ready
  <2> HIDE DEF v
  <2>2. Within(ready, f, r, b) /\ SameLayers(ready, f, r) /\ CurrentFull(f, r) = v
    BY <1>1, <1>2, <1>5, ThroughCell
  <2> HIDE DEF f
  <2>3. Within(e, f, r, b)
    BY <1>1, <2>2, WithinTransitive
  <2>4. LayerPrefix(f, r, b).present /\ LayerCell(f, r, b) # NoLocal
    BY <1>1, <2>2 DEF SameLayers
  <2>5. b => Whole(f, r)
    BY <2>4, CellIsWhole
  <2>6. Wrote(e, f, r, b, v)
    BY <2>2, <2>3, <2>4, <2>5 DEF Wrote
  <2> QED BY <1>6, <2>1, <2>6 DEF v
<1>7. CASE ~holds
  <2>1. ready = EmitWriteAliasIf(e, r, alias, holds)
    BY <1>7 DEF EmitWriteAliasIf, ready
  <2>2. b => Whole(ready, r)
    BY <1>1, CellIsWhole
  <2>3. Wrote(e, ready, r, b, arch[r])
    BY <1>1, <2>2 DEF Wrote
  <2> QED BY <1>7, <2>1, <2>3
<1> QED BY <1>6, <1>7

\* A cell under no prefix answers every read by itself.
LEMMA CellAnswers ==
    ASSUME NEW e, NEW r, NEW alias, UncoveredCell(e, r) # NoLocal
    PROVE  ReadAlias(e, r, alias).to = e
BY DEF ReadAlias, MaterializeCurrentFull

\* A write of bits 8-15 goes through the cell, whatever its value reads.
LEMMA HighWritten ==
    ASSUME NEW e, Sound(e), StateTyped, WrittenTyped, NEW r \in Regs, Settled(e, r),
           CurrentFull(e, r) = arch[r], NEW b \in BOOLEAN, b = PreserveCommitted,
           HasCells(block), NEW alias, NEW read \in Aliases \cup {{}}
    PROVE  Wrote(e, WriteHigh(e, r, alias, read), r, b,
                 Overlay(arch[r], Fill(written + 1), alias))
<1> DEFINE ready == EnsureMutableCell(e, r)
           emitted == EmitValue(ready, r, read)
           c == LayerCell(ready, r, b)
           v == Overlay(arch[r], Fill(written + 1), alias)
           stored == SetLocal(ready, c, v)
           f == Record(stored, r, Unknown, b)
<1>1. /\ Within(e, ready, r, b)
      /\ CurrentFull(ready, r) = arch[r]
      /\ LayerPrefix(ready, r, b).present /\ LayerPrefix(ready, r, b).covers = {}
      /\ c # NoLocal
  BY CellEnsured
<1> HIDE DEF ready
<1>2. Sound(ready) /\ Top(ready, r, b)
  BY <1>1, WritableTop, TopKept DEF Within
<1>3. emitted.token = written + 1
  BY <1>1, <1>2, EmitRight
<1>4. UncoveredCell(ready, r) # NoLocal
  <2>1. CASE b
    BY <1>1, <2>1 DEF UncoveredCell, LayerPrefix, LayerCell
  <2>2. CASE ~b
    BY <1>1, <1>2, <2>2 DEF UncoveredCell, LayerPrefix, LayerCell, Top
  <2> QED BY <2>1, <2>2
<1>5. emitted.to = ready
  BY <1>4, CellAnswers DEF EmitValue
<1>6. WritableCell(ready, r) = c /\ At(ready, c) = arch[r]
  BY <1>1, <1>2, CellValue DEF WritableCell, LayerCell
<1>7. f = WriteHigh(e, r, alias, read)
  BY <1>3, <1>5, <1>6 DEF WriteHigh, ready
<1>8. v \in Values
  BY OverlayTyped DEF WrittenTyped
<1> HIDE DEF v
<1>9. Within(ready, stored, r, b) /\ SameLayers(ready, stored, r) /\ CurrentFull(stored, r) = v
  BY <1>1, <1>2, <1>8, ThroughCell
<1> HIDE DEF stored
<1>10. Sound(stored) /\ Within(e, stored, r, b)
  BY <1>1, <1>9, WithinTransitive DEF Within
<1>11. Unknown \in PrefixRecords /\ Unknown.present /\ Unknown.covers = {} /\ Unknown.local = NoLocal
  BY DEF Unknown, PrefixRecords, Covers, LocalNames
<1>12. LayerCell(stored, r, b) = c
  BY <1>9 DEF SameLayers
<1>13. Updated(stored, f, r, b, Unknown, c)
  BY <1>10, <1>11, <1>12, RecordUpdates DEF Sound
<1>14. SoundLayer(stored, r, LayerPrefix(stored, r, b), c) /\ PrivateCell(stored, r, b)
  BY <1>10, <1>12 DEF Sound
<1>15. Fits(stored, r, b, Unknown, c)
  <2>1. SoundLayer(stored, r, Unknown, c)
    BY <1>11, <1>14 DEF SoundLayer, EAX
  <2>2. ASSUME NEW q \in Regs, NEW d \in BOOLEAN, q # r \/ d # b
        PROVE  LayerPrefix(stored, q, d).local # c /\ LayerCell(stored, q, d) # c
    BY <1>1, <1>12, <1>14, <2>2 DEF PrivateCell
  <2> QED BY <1>1, <1>11, <2>1, <2>2 DEF Fits
<1> HIDE DEF f, c
<1>16. Within(stored, f, r, b) /\ Extends(stored, f)
  BY <1>10, <1>13, <1>15, LayerUpdated
<1>17. Within(e, f, r, b)
  BY <1>10, <1>16, WithinTransitive
<1>18. LayerPrefix(f, r, b) = Unknown /\ LayerCell(f, r, b) = c
  BY <1>13 DEF Updated
<1>19. CurrentFull(f, r) = v
  <2>1. CurrentFull(f, r) = At(f, c)
    BY <1>1, <1>11, <1>17, <1>18, WritableTop, TopKept, CellValue DEF Within
  <2>2. CurrentFull(stored, r) = At(stored, c)
    BY <1>1, <1>2, <1>9, <1>10, <1>12, TopKept, CellValue DEF SameLayers
  <2>3. At(f, c) = At(stored, c)
    BY <1>1, <1>14, <1>16, LocalNamed DEF SoundLayer, Extends
  <2> QED BY <1>9, <2>1, <2>2, <2>3
<1>20. b => Whole(f, r)
  BY <1>1, <1>18, CellIsWhole
<1> QED BY <1>7, <1>11, <1>17, <1>18, <1>19, <1>20 DEF Wrote, v

\* A layer that is given a wider prefix: where the prefix is silent the
\* register keeps its value.
LEMMA WiderRecorded ==
    ASSUME NEW e, Sound(e), StateTyped, NEW r \in Regs, Settled(e, r),
           NEW b \in BOOLEAN, b = PreserveCommitted,
           NEW g, Within(e, g, r, b), Extends(e, g), LayerCell(g, r, b) = LayerCell(e, r, b),
           NEW l \in Locals(g), \A q \in Regs, d \in BOOLEAN : LayerCell(g, q, d) # l,
           NEW a \in {AL, AX, EAX}, LayerPrefix(e, r, b).covers \subseteq a,
           a = EAX => LayerCell(e, r, b) = NoLocal,
           b => e.committed[r].covers \subseteq a /\ e.cell[r] = NoLocal,
           NEW v \in Values, \A s \in a : At(g, l)[s] = v[s],
           \A s \in Segments : s \notin a => v[s] = CurrentFull(e, r)[s],
           NEW f, f = Record(g, r, Prefix(l, a), b)
    PROVE  /\ Wrote(e, f, r, b, v)
           /\ LayerCell(f, r, b) = LayerCell(e, r, b)
<1> DEFINE c == LayerCell(e, r, b)
<1>1. Sound(g) /\ Top(e, r, b) /\ Top(g, r, b) /\ Below(g, r, b) = Below(e, r, b)
  BY WritableTop, TopKept DEF Within
<1>2. /\ Within(g, f, r, b)
      /\ LayerPrefix(f, r, b) = Prefix(l, a)
      /\ LayerCell(f, r, b) = c
      /\ CurrentFull(f, r) = Resolve(g, Prefix(l, a), c, Below(e, r, b))
  BY <1>1, PrefixRecorded
<1>3. Within(e, f, r, b) /\ Sound(f)
  BY <1>2, WithinTransitive DEF Within
<1>4. c # NoLocal => At(g, c) = At(e, c)
  BY LocalNamed DEF Sound, SoundLayer, Extends
<1>5. CurrentFull(f, r) \in Values
  BY <1>3, LayerValues
<1>6. ASSUME NEW s \in Segments
      PROVE  CurrentFull(f, r)[s] = v[s]
  <2>1. CASE s \in a
    BY <1>2, <2>1 DEF Resolve, Prefix
  <2>2. CASE s \notin a
    <3>1. CurrentFull(e, r)[s] = IF c # NoLocal THEN At(e, c)[s] ELSE Below(e, r, b)[s]
      BY <1>1, <2>2, TopValue DEF Resolve
    <3>2. CurrentFull(f, r)[s] = IF c # NoLocal THEN At(g, c)[s] ELSE Below(e, r, b)[s]
      BY <1>2, <2>2 DEF Resolve, Prefix
    <3> QED BY <1>4, <2>2, <3>1, <3>2
  <2> QED BY <2>1, <2>2
<1>7. CurrentFull(f, r) = v
  BY <1>5, <1>6, ValuesEqual
<1>8. ASSUME b
      PROVE  Whole(f, r)
  <2>1. f.pending[r].covers = a /\ a # {}
    <3>1. f.pending[r] = Prefix(l, a)
      BY <1>2, <1>8 DEF LayerPrefix
    <3>2. a # {}
      BY DEF AL, AX, EAX
    <3> QED BY <3>1, <3>2 DEF Prefix
  <2>2. FALSE # b
    BY <1>8
  <2>3. LayerPrefix(f, r, FALSE) = LayerPrefix(e, r, FALSE) /\ LayerCell(f, r, FALSE) = LayerCell(e, r, FALSE)
    BY <1>3, <2>2 DEF Within
  <2>4. f.committed[r] = e.committed[r] /\ f.cell[r] = e.cell[r]
    BY <2>3 DEF LayerPrefix, LayerCell
  <2> QED BY <1>8, <2>1, <2>4 DEF Whole
<1>9. LayerPrefix(f, r, b).present
  BY <1>2 DEF Prefix
<1>10. LayerCell(f, r, b) # NoLocal => HasCells(block)
  BY <1>2 DEF Settled
<1> QED BY <1>2, <1>3, <1>7, <1>8, <1>9, <1>10 DEF Wrote

\* The prefix a low write can join: it holds the current value, and covers
\* what the written layer and the committed one know.
LEMMA KnownRight ==
    ASSUME NEW e, Sound(e), StateTyped, NEW r \in Regs, Settled(e, r),
           NEW b \in BOOLEAN, b = PreserveCommitted, e.pendingCell[r] = NoLocal,
           NEW known, known = KnownPrefixForReg(e, r)
    PROVE  /\ known \in {e.pending[r], e.committed[r]}
           /\ known.covers # {} => known.local \in Locals(e)
           /\ \A s \in known.covers : At(e, known.local)[s] = CurrentFull(e, r)[s]
           /\ LayerPrefix(e, r, b).covers \subseteq known.covers
           /\ b => e.committed[r].covers \subseteq known.covers
           /\ known.covers = EAX => LayerCell(e, r, b) = NoLocal
           /\ known.covers \in Covers
<1>1. /\ SoundLayer(e, r, e.committed[r], e.cell[r])
      /\ SoundLayer(e, r, e.pending[r], e.pendingCell[r])
  BY LayersSound
<1>2. \A x \in Covers : x \subseteq Segments
  BY DEF Covers, Segments, AL, AX, EAX
<1>3. CASE e.pending[r].covers # {}
  <2>1. known = e.pending[r]
    BY <1>3 DEF KnownPrefixForReg
  <2>2. e.pending[r].present /\ b
    BY <1>1, <1>3 DEF SoundLayer, Settled
  <2>3. e.committed[r].covers \subseteq e.pending[r].covers
    BY <2>2 DEF Settled, Whole
  <2>4. \A s \in known.covers : At(e, known.local)[s] = CurrentFull(e, r)[s]
    BY <1>1, <1>2, <2>1, ValueOfSegment DEF SoundLayer, PrefixRecords
  <2> QED BY <1>1, <2>1, <2>2, <2>3, <2>4 DEF SoundLayer, LayerPrefix, LayerCell, PrefixRecords
<1>4. CASE e.pending[r].covers = {}
  <2>1. known = e.committed[r]
    BY <1>4 DEF KnownPrefixForReg
  <2>2. \A s \in known.covers : At(e, known.local)[s] = CurrentFull(e, r)[s]
    BY <1>1, <1>2, <1>4, <2>1, ValueOfSegment DEF SoundLayer, PrefixRecords
  <2>3. known.covers = EAX => LayerCell(e, r, b) = NoLocal
    BY <1>1, <2>1 DEF SoundLayer, LayerCell
  <2>4. LayerPrefix(e, r, b).covers \subseteq known.covers
    BY <1>4, <2>1 DEF LayerPrefix
  <2> QED BY <1>1, <2>1, <2>2, <2>3, <2>4 DEF SoundLayer, PrefixRecords
<1> QED BY <1>3, <1>4

\* Two prefixes both begin at bit 0: one covers the other.
LEMMA CoversNested ==
    ASSUME NEW a \in {AL, AX}, NEW k \in Covers
    PROVE  /\ a \subseteq k /\ a # k => k \in {AX, EAX}
           /\ ~(a \subseteq k /\ a # k) => k \subseteq a
BY DEF Covers, AL, AX, EAX

\* A read of the lowest bits needs no copy.
LEMMA LowReadFree ==
    ASSUME NEW e, Sound(e), NEW r \in Regs, ~Pends(e, r)
    PROVE  ReadAlias(e, r, AL).to = e
<1>1. /\ SoundLayer(e, r, e.committed[r], e.cell[r])
      /\ SoundLayer(e, r, e.pending[r], e.pendingCell[r])
  BY LayersSound
<1>2. ~e.pending[r].present /\ e.pending[r].covers = {} /\ e.pendingCell[r] = NoLocal
  BY <1>1 DEF Pends, SoundLayer
<1>3. CASE e.committed[r].covers # {}
  <2>1. AL \subseteq e.committed[r].covers
    BY <1>1, <1>3 DEF SoundLayer, PrefixRecords, Covers, AL, AX, EAX
  <2>2. CurrentSource(e, r, AL) = e.committed[r]
    BY <1>2, <2>1 DEF CurrentSource
  <2> QED BY <1>3, <2>2 DEF ReadAlias
<1>4. CASE e.committed[r].covers = {} /\ e.cell[r] # NoLocal
  BY <1>2, <1>4, CellAnswers DEF UncoveredCell
<1>5. CASE e.committed[r].covers = {} /\ e.cell[r] = NoLocal
  <2>1. CurrentSource(e, r, AL).covers = {}
    BY <1>2, <1>5 DEF CurrentSource, Unknown
  <2>2. CanLoadFromState(e, r, AL) /\ AL # EAX
    BY <1>2, <1>5 DEF CanLoadFromState, Overlaps, AL, EAX
  <2> QED BY <2>1, <2>2 DEF ReadAlias
<1> QED BY <1>3, <1>4, <1>5

\* A write of the low bits, joined to a wider prefix or alone.  Over a cell
\* its value may read the lowest bits only: a wider read would move the
\* register to a full local, which the narrow prefix then hides.  A pending
\* one must not lie over a cell.
LEMMA LowWritten ==
    ASSUME NEW e, Sound(e), StateTyped, WrittenTyped, NEW r \in Regs, Settled(e, r),
           CurrentFull(e, r) = arch[r], NEW b \in BOOLEAN, b = PreserveCommitted,
           NEW alias \in {AL, AX}, NEW read \in Aliases \cup {{}}, ZeroToken \in Tokens,
           b => e.cell[r] = NoLocal /\ e.pendingCell[r] = NoLocal,
           read \in {{}, AL} \/ LayerCell(e, r, b) = NoLocal
    PROVE  Wrote(e, WriteLow(e, r, alias, read), r, b,
                 Overlay(arch[r], Fill(written + 1), alias))
<1> DEFINE known == KnownPrefixForReg(e, r)
           touched == Touch(e, r)
           emitted == EmitValue(touched, r, read)
           k == emitted.to
           token == Fill(emitted.token)
           v == Overlay(arch[r], Fill(written + 1), alias)
           aloneValue == Overlay(Fill(ZeroToken), token, alias)
           composedValue == Overlay(At(k, known.local), token, alias)
           alone == AddLocal(k, r, aloneValue)
           composed == AddLocal(k, r, composedValue)
           joins == alias \subseteq known.covers /\ alias # known.covers
           joined == Record(composed, r, Prefix(Newest(composed, r), known.covers), b)
           f == WriteLow(e, r, alias, read)
<1>1. /\ Within(e, touched, r, b) /\ SameValues(e, touched, r) /\ Extends(e, touched)
      /\ LayerPrefix(touched, r, b).present /\ LayerCell(touched, r, b) = LayerCell(e, r, b)
  BY TouchRight
<1>2. Sound(touched) /\ Pends(touched, r) = b /\ CurrentFull(touched, r) = arch[r]
  BY <1>1, PendsWritten DEF Within, SameValues
<1> HIDE DEF touched
<1>3. emitted.token = written + 1 /\ Kept(touched, k, r)
  BY <1>2, EmitRight
<1>4. Within(touched, k, r, b) /\ Extends(touched, k)
  BY <1>2, <1>3, KeptWithin, KeptValues
<1>5. LayerCell(k, r, b) = LayerCell(e, r, b)
  <2>1. CASE LayerCell(e, r, b) = NoLocal
    BY <1>1, <1>2, <1>3, <2>1, KeptWithin
  <2>2. CASE LayerCell(e, r, b) # NoLocal
    <3>1. ~b
      BY <2>2 DEF LayerCell
    <3>2. ~Pends(touched, r) /\ read \in {{}, AL}
      BY <1>2, <2>2, <3>1
    <3>3. k = touched
      BY <1>2, <3>2, LowReadFree DEF EmitValue
    <3> QED BY <1>1, <3>3
  <2> QED BY <2>1, <2>2
<1>6. Within(e, k, r, b) /\ Extends(e, k) /\ Sound(k)
  BY <1>1, <1>4, WithinTransitive DEF Within, Extends
<1>7. token = Fill(written + 1)
  BY <1>3
<1>8. v \in Values /\ aloneValue \in Values
  BY <1>7, OverlayTyped DEF WrittenTyped
<1>9. e.pendingCell[r] = NoLocal
  <2>1. CASE b
    BY <2>1
  <2>2. CASE ~b
    BY <2>2, WritableTop DEF Pends
  <2> QED BY <2>1, <2>2
<1>10. /\ known.covers # {} => known.local \in Locals(e)
       /\ \A s \in known.covers : At(e, known.local)[s] = arch[r][s]
       /\ LayerPrefix(e, r, b).covers \subseteq known.covers
       /\ b => e.committed[r].covers \subseteq known.covers
       /\ known.covers = EAX => LayerCell(e, r, b) = NoLocal
       /\ known.covers \in Covers
  BY <1>9, KnownRight
<1>11. f = IF ~joins THEN Record(alone, r, Prefix(Newest(alone, r), alias), b)
           ELSE IF known.covers = EAX THEN SetCell(joined, r, NoLocal, b)
           ELSE joined
  BY DEF WriteLow, touched
<1> HIDE DEF known, emitted, f
<1>12. CASE ~joins
  <2> DEFINE l == Newest(alone, r)
  <2>1. known.covers \subseteq alias
    BY <1>10, <1>12, CoversNested
  <2>2. /\ Within(k, alone, r, b) /\ Extends(k, alone) /\ SameLayers(k, alone, r)
    BY <1>6, <1>8, AddedWithin
  <2>3. /\ l \in Locals(alone) /\ At(alone, l) = aloneValue
        /\ \A q \in Regs, d \in BOOLEAN : LayerCell(alone, q, d) # l
    BY <1>6, <1>8, LocalAdded
  <2> HIDE DEF alone, l
  <2>4. Within(e, alone, r, b) /\ Extends(e, alone) /\ LayerCell(alone, r, b) = LayerCell(e, r, b)
    BY <1>5, <1>6, <2>2, WithinTransitive DEF Extends, SameLayers
  <2>5. f = Record(alone, r, Prefix(l, alias), b)
    BY <1>11, <1>12 DEF l
  <2>6. alias \in {AL, AX, EAX} /\ alias # EAX /\ alias \subseteq Segments
    BY DEF AL, AX, EAX, Segments
  <2>7. \A s \in alias : At(alone, l)[s] = v[s]
    BY <1>7, <2>3, <2>6 DEF Overlay
  <2>8. \A s \in Segments : s \notin alias => v[s] = CurrentFull(e, r)[s]
    BY DEF Overlay
  <2>9. LayerPrefix(e, r, b).covers \subseteq alias /\ (b => e.committed[r].covers \subseteq alias)
    BY <1>10, <2>1
  <2> HIDE DEF v
  <2>10. Wrote(e, f, r, b, v)
    BY <1>8, <2>3, <2>4, <2>5, <2>6, <2>7, <2>8, <2>9, WiderRecorded
  <2> QED BY <2>10 DEF f, v
<1>13. CASE joins
  <2> DEFINE l == Newest(composed, r)
             a == known.covers
  <2>1. a \in {AL, AX, EAX} /\ alias \subseteq a /\ a \subseteq Segments /\ a # {}
    <3>1. a \in {AX, EAX}
      BY <1>10, <1>13, CoversNested
    <3> QED BY <1>13, <3>1 DEF AL, AX, EAX, Segments
  <2>2. At(k, known.local) = At(e, known.local) /\ At(k, known.local) \in Values
    <3>1. known.local \in Locals(e) /\ known.local \in Locals(k)
      BY <1>6, <1>10, <2>1 DEF Extends
    <3> QED BY <1>6, <3>1, LocalTyped DEF Extends, Sound
  <2>3. composedValue \in Values
    BY <1>7, <2>2, OverlayTyped DEF WrittenTyped
  <2>4. /\ Within(k, composed, r, b) /\ Extends(k, composed) /\ SameLayers(k, composed, r)
    BY <1>6, <2>3, AddedWithin
  <2>5. /\ l \in Locals(composed) /\ At(composed, l) = composedValue
        /\ \A q \in Regs, d \in BOOLEAN : LayerCell(composed, q, d) # l
    BY <1>6, <2>3, LocalAdded
  <2>6. \A s \in a : At(composed, l)[s] = v[s]
    BY <1>7, <1>10, <2>1, <2>2, <2>5 DEF Overlay
  <2>7. \A s \in Segments : s \notin a => v[s] = CurrentFull(e, r)[s]
    BY <2>1 DEF Overlay
  <2> HIDE DEF composed, l, v, a
  <2>8. Within(e, composed, r, b) /\ Extends(e, composed) /\ LayerCell(composed, r, b) = LayerCell(e, r, b)
    BY <1>5, <1>6, <2>4, WithinTransitive DEF Extends, SameLayers
  <2>9. joined = Record(composed, r, Prefix(l, a), b)
    BY DEF l, a
  <2>10. Wrote(e, joined, r, b, v) /\ LayerCell(joined, r, b) = LayerCell(e, r, b)
    <3>1. /\ LayerPrefix(e, r, b).covers \subseteq a
          /\ a = EAX => LayerCell(e, r, b) = NoLocal
          /\ b => e.committed[r].covers \subseteq a /\ e.cell[r] = NoLocal
      BY <1>10 DEF a
    <3> QED BY <1>8, <2>1, <2>5, <2>6, <2>7, <2>8, <2>9, <3>1, WiderRecorded
  <2> HIDE DEF joined
  <2>11. CASE a # EAX
    <3>1. f = joined
      BY <1>11, <1>13, <2>11 DEF a
    <3> QED BY <2>10, <3>1 DEF f, v
  <2>12. CASE a = EAX
    <3>1. f = SetCell(joined, r, NoLocal, b) /\ LayerCell(joined, r, b) = NoLocal
      BY <1>10, <1>11, <1>13, <2>10, <2>12 DEF a
    <3>2. /\ Within(joined, f, r, b) /\ LayerPrefix(f, r, b) = LayerPrefix(joined, r, b)
          /\ LayerCell(f, r, b) = NoLocal /\ SameValues(joined, f, r)
      BY <2>10, <3>1, CellCleared DEF Wrote, Within
    <3>3. Within(e, f, r, b) /\ CurrentFull(f, r) = v
      BY <2>10, <3>2, WithinTransitive DEF Wrote, SameValues
    <3>4. ASSUME b
          PROVE  Whole(f, r)
      <4>1. FALSE # b
        BY <3>4
      <4>2. LayerPrefix(f, r, FALSE) = LayerPrefix(joined, r, FALSE) /\ LayerCell(f, r, FALSE) = LayerCell(joined, r, FALSE)
        BY <3>2, <4>1 DEF Within
      <4>3. Whole(joined, r) /\ joined.pendingCell[r] = NoLocal
        BY <2>10, <3>1, <3>4 DEF Wrote, LayerCell
      <4> QED BY <3>2, <3>4, <4>2, <4>3 DEF Whole, LayerPrefix, LayerCell
    <3>5. Wrote(e, f, r, b, v)
      BY <2>10, <3>2, <3>3, <3>4 DEF Wrote
    <3> QED BY <3>5 DEF f, v
  <2> QED BY <2>11, <2>12
<1> QED BY <1>12, <1>13

\* Settled speaks of a register's layers only.
LEMMA LayersSettled ==
    ASSUME NEW e, NEW f, NEW q, SameLayers(e, f, q), Settled(e, q)
    PROVE  Settled(f, q)
<1>1. /\ f.pending[q] = e.pending[q] /\ f.committed[q] = e.committed[q]
      /\ f.cell[q] = e.cell[q] /\ f.pendingCell[q] = e.pendingCell[q]
  BY DEF SameLayers, LayerPrefix, LayerCell
<1> QED BY <1>1 DEF Settled, Whole, LayerCell

\* A full pending prefix makes its layer whole.
LEMMA FullIsWhole ==
    ASSUME NEW f, Sound(f), NEW r \in Regs, NEW b \in BOOLEAN, LayerPrefix(f, r, b).covers = EAX
    PROVE  b => Whole(f, r)
<1>1. f.committed[r].covers \in Covers
  BY LayersSound DEF SoundLayer, PrefixRecords
<1>2. f.committed[r].covers \subseteq EAX /\ EAX # {}
  BY <1>1 DEF Covers, AL, AX, EAX
<1> QED BY <1>2 DEF Whole, LayerPrefix

\* Reads keep layers settled.
LEMMA KeptSettled ==
    ASSUME NEW e, Sound(e), NEW r \in Regs, NEW f, Kept(e, f, r), NEW q \in Regs, Settled(e, q)
    PROVE  Settled(f, q)
<1>1. CASE f = e
  BY <1>1
<1>2. CASE f # e /\ q # r
  <2>1. SameLayers(e, f, q)
    BY <1>2, KeptValues DEF Within, Others
  <2> QED BY <2>1, LayersSettled
<1>3. CASE f # e /\ q = r
  <2>1. PICK l : Copied(e, f, r, l)
    BY <1>3 DEF Kept
  <2>2. Sound(f)
    BY <2>1 DEF Copied, Within
  <2>3. CASE Pends(e, r)
    <3>1. TRUE = Pends(e, r) /\ FALSE # Pends(e, r)
      BY <2>3 DEF Pends
    <3>2. LayerPrefix(f, r, TRUE) = Prefix(l, EAX) /\ LayerCell(f, r, TRUE) = NoLocal
      BY <2>1, <3>1 DEF Copied
    <3>3. LayerCell(f, r, FALSE) = LayerCell(e, r, FALSE)
      BY <2>1, <3>1 DEF Copied, Within
    <3>4. Whole(f, r)
      <4>1. LayerPrefix(f, r, TRUE).covers = EAX
        BY <3>2 DEF Prefix, LayerPrefix
      <4> QED BY <2>2, <4>1, FullIsWhole
    <3>5. PreserveCommitted
      BY <2>3, <1>3, LayersSound DEF Settled, Pends, SoundLayer
    <3>6. \A d \in BOOLEAN : LayerCell(f, r, d) # NoLocal => HasCells(block)
      BY <1>3, <3>2, <3>3 DEF Settled
    <3> QED BY <1>3, <3>4, <3>5, <3>6 DEF Settled
  <2>4. CASE ~Pends(e, r)
    <3>1. FALSE = Pends(e, r) /\ TRUE # Pends(e, r)
      BY <2>4 DEF Pends
    <3>2. LayerCell(f, r, FALSE) = NoLocal
      BY <2>1, <3>1 DEF Copied
    <3>3. LayerPrefix(f, r, TRUE) = LayerPrefix(e, r, TRUE) /\ LayerCell(f, r, TRUE) = LayerCell(e, r, TRUE)
      BY <2>1, <3>1 DEF Copied, Within
    <3>4. ~f.pending[r].present
      BY <2>4, <3>3 DEF Pends, LayerPrefix
    <3>5. \A d \in BOOLEAN : LayerCell(f, r, d) # NoLocal => HasCells(block)
      BY <1>3, <3>2, <3>3 DEF Settled
    <3> QED BY <1>3, <3>4, <3>5 DEF Settled
  <2> QED BY <2>3, <2>4
<1> QED BY <1>1, <1>2, <1>3

\* A copy shares a local that no write updates.
LEMMA CopyWritten ==
    ASSUME NEW e, Sound(e), StateTyped, NEW src \in Regs, NEW dst \in Regs,
           \A q \in Regs : Settled(e, q), NEW b \in BOOLEAN, b = PreserveCommitted
    PROVE  \E g : /\ Kept(e, g, src)
                  /\ Settled(g, dst)
                  /\ Wrote(g, EmitCopy(e, dst, src), dst, b, CurrentFull(e, src))
<1> DEFINE stable == EnsureStableFullValueForCopy(e, src)
           g == stable.to
           l == stable.local
           touched == Touch(g, dst)
           cleared == SetCell(touched, dst, NoLocal, b)
           f == EmitCopy(e, dst, src)
<1>1. /\ Kept(e, g, src)
      /\ l \in Locals(g) /\ At(g, l) = CurrentFull(e, src)
      /\ \A q \in Regs, d \in BOOLEAN : LayerCell(g, q, d) # l
  BY StableCopyRight
<1>2. Sound(g)
  BY <1>1, KeptValues DEF Within
<1>3. f = Record(cleared, dst, Prefix(l, EAX), b)
  BY DEF EmitCopy
<1> HIDE DEF stable, f
<1>4. Settled(g, dst)
  BY <1>1, KeptSettled
<1>5. /\ Within(g, touched, dst, b) /\ Extends(g, touched)
      /\ LayerCell(touched, dst, b) = LayerCell(g, dst, b)
  BY <1>2, TouchRight
<1>6. /\ Sound(touched) /\ l \in Locals(touched) /\ At(touched, l) = CurrentFull(e, src)
      /\ \A q \in Regs, d \in BOOLEAN : LayerCell(touched, q, d) # l
  <2>1. ASSUME NEW q \in Regs, NEW d \in BOOLEAN
        PROVE  LayerCell(touched, q, d) = LayerCell(g, q, d)
    BY <1>5 DEF Within, Others, SameLayers
  <2> QED BY <1>1, <1>5, <2>1 DEF Within, Extends
<1> HIDE DEF touched
<1>7. /\ Within(touched, cleared, dst, b) /\ Extends(touched, cleared)
      /\ LayerCell(cleared, dst, b) = NoLocal
      /\ \A q \in Regs, d \in BOOLEAN :
           LayerCell(cleared, q, d) # NoLocal => LayerCell(cleared, q, d) = LayerCell(touched, q, d)
  BY <1>6, CellCleared
<1> HIDE DEF cleared
<1>8. /\ Sound(cleared) /\ l \in Locals(cleared) /\ At(cleared, l) = CurrentFull(e, src)
      /\ \A q \in Regs, d \in BOOLEAN : LayerCell(cleared, q, d) # l
  BY <1>6, <1>7, LocalTyped DEF Within, Extends, Sound
<1>9. Within(g, cleared, dst, b) /\ Top(cleared, dst, b)
  BY <1>2, <1>4, <1>5, <1>7, WithinTransitive, WritableTop, TopKept
<1>10. /\ Within(cleared, f, dst, b)
       /\ LayerPrefix(f, dst, b) = Prefix(l, EAX)
       /\ LayerCell(f, dst, b) = NoLocal
       /\ CurrentFull(f, dst) = Resolve(cleared, Prefix(l, EAX), NoLocal, Below(cleared, dst, b))
  BY <1>3, <1>7, <1>8, <1>9, PrefixRecorded
<1>11. CurrentFull(f, dst) = CurrentFull(e, src)
  <2>1. CurrentFull(e, src) \in Values
    BY LayerValues
  <2> QED BY <1>8, <1>10, <2>1 DEF Resolve, Prefix, Values, Segments
<1>12. Within(g, f, dst, b)
  BY <1>9, <1>10, WithinTransitive
<1>13. b => Whole(f, dst)
  <2>1. LayerPrefix(f, dst, b).covers = EAX
    BY <1>10 DEF Prefix
  <2>2. Sound(f)
    BY <1>12 DEF Within
  <2> QED BY <2>1, <2>2, FullIsWhole
<1>14. Wrote(g, f, dst, b, CurrentFull(e, src))
  BY <1>10, <1>11, <1>12, <1>13 DEF Wrote, Prefix
<1> QED BY <1>1, <1>4, <1>14 DEF f

\* A write keeps every layer settled.
LEMMA WroteSettled ==
    ASSUME NEW e, Sound(e), NEW r \in Regs, NEW b \in BOOLEAN, b = PreserveCommitted,
           NEW f, NEW v, Wrote(e, f, r, b, v), NEW q \in Regs, Settled(e, q)
    PROVE  Settled(f, q)
<1>1. CASE q # r
  <2>1. SameLayers(e, f, q)
    BY <1>1 DEF Wrote, Within, Others
  <2> QED BY <2>1, LayersSettled
<1>2. CASE q = r /\ b
  <2>1. FALSE # b
    BY <1>2
  <2>2. LayerCell(f, r, FALSE) = LayerCell(e, r, FALSE)
    BY <2>1 DEF Wrote, Within
  <2> QED BY <1>2, <2>2 DEF Wrote, Settled, LayerCell
<1>3. CASE q = r /\ ~b
  <2>1. TRUE # b
    BY <1>3
  <2>2. LayerPrefix(f, r, TRUE) = LayerPrefix(e, r, TRUE) /\ LayerCell(f, r, TRUE) = LayerCell(e, r, TRUE)
    BY <2>1 DEF Wrote, Within
  <2> QED BY <1>3, <2>2 DEF Wrote, Settled, LayerPrefix, LayerCell
<1> QED BY <1>1, <1>2, <1>3
=============================================================================
