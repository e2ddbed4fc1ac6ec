--------------------------- MODULE RegisterProofs ---------------------------
(***************************************************************************)
(* Theorems of RegisterState for any registers, blocks and bounds, from    *)
(* the lemmas of RegisterLayers about its operators.                       *)
(***************************************************************************)
EXTENDS RegisterLayers

-----------------------------------------------------------------------------
(* Commit, capture and store.                                              *)

\* The pending layer of q takes the place of its committed layer.
Moves(e, regs, q) == q \in regs /\ e.pending[q].present

\* Each layer after a commit is a layer of before, or empty.
LEMMA CommitMoves ==
    ASSUME NEW e, Sound(e), NEW regs \in SUBSET Regs,
           \A q \in Regs : e.pending[q].present => Whole(e, q),
           NEW f, f = CommitPending(e, regs)
    PROVE  /\ f \in Emitters
           /\ f.locals = e.locals
           /\ \A q \in Regs :
                /\ f.committed[q] = IF Moves(e, regs, q) THEN e.pending[q] ELSE e.committed[q]
                /\ f.cell[q] = IF Moves(e, regs, q) THEN e.pendingCell[q] ELSE e.cell[q]
                /\ f.pending[q] = IF Moves(e, regs, q) THEN Absent ELSE e.pending[q]
                /\ f.pendingCell[q] = IF Moves(e, regs, q) THEN NoLocal ELSE e.pendingCell[q]
<1> DEFINE moved == Staged(e, regs)
           target == [q \in Regs |->
                        IF q \notin moved THEN e.committed[q]
                        ELSE IF e.pending[q].present THEN e.pending[q] ELSE Unknown]
           cell == [q \in Regs |->
                      IF q \notin moved THEN e.cell[q]
                      ELSE IF e.pendingCell[q] # NoLocal THEN e.pendingCell[q]
                      ELSE IF target[q].covers = EAX THEN NoLocal ELSE e.cell[q]]
           pending == [q \in Regs |-> IF q \in moved THEN Absent ELSE e.pending[q]]
           pendingCell == [q \in Regs |-> IF q \in moved THEN NoLocal ELSE e.pendingCell[q]]
<1>1. e \in Emitters
  BY DEF Sound
<1>2. f = [e EXCEPT !.committed = target, !.cell = cell, !.pending = pending,
                    !.pendingCell = pendingCell]
  BY <1>1 DEF CommitPending, Emitters
<1>3. ASSUME NEW q \in Regs
      PROVE  q \in moved <=> Moves(e, regs, q)
  BY LayersSound DEF Staged, Moves, SoundLayer
<1>4. ASSUME NEW q \in Regs
      PROVE  /\ target[q] = IF Moves(e, regs, q) THEN e.pending[q] ELSE e.committed[q]
             /\ cell[q] = IF Moves(e, regs, q) THEN e.pendingCell[q] ELSE e.cell[q]
             /\ pending[q] = IF Moves(e, regs, q) THEN Absent ELSE e.pending[q]
             /\ pendingCell[q] = IF Moves(e, regs, q) THEN NoLocal ELSE e.pendingCell[q]
  <2>1. target[q] = IF Moves(e, regs, q) THEN e.pending[q] ELSE e.committed[q]
    BY <1>3 DEF Moves
  <2>2. CASE Moves(e, regs, q) /\ e.pendingCell[q] = NoLocal
    <3>1. e.pending[q].covers # EAX => e.cell[q] = NoLocal
      BY <2>2 DEF Moves, Whole
    <3> QED BY <1>3, <2>1, <2>2, <3>1
  <2>3. CASE ~(Moves(e, regs, q) /\ e.pendingCell[q] = NoLocal)
    BY <1>3, <2>1, <2>3
  <2> QED BY <2>2, <2>3
<1>5. /\ target \in [Regs -> PrefixRecords] /\ pending \in [Regs -> PrefixRecords]
      /\ cell \in [Regs -> LocalNames] /\ pendingCell \in [Regs -> LocalNames]
  <2>1. ASSUME NEW q \in Regs
        PROVE  /\ e.committed[q] \in PrefixRecords /\ e.pending[q] \in PrefixRecords
               /\ e.cell[q] \in LocalNames /\ e.pendingCell[q] \in LocalNames
    BY <1>1 DEF Emitters
  <2>2. Absent \in PrefixRecords /\ Unknown \in PrefixRecords /\ NoLocal \in LocalNames
    BY DEF Absent, Unknown, PrefixRecords, Covers, LocalNames
  <2> QED BY <2>1, <2>2
<1> HIDE DEF target, cell, pending, pendingCell
<1>6. f \in Emitters
  BY <1>1, <1>2, <1>5 DEF Emitters
<1>7. /\ f.locals = e.locals /\ f.committed = target /\ f.cell = cell
      /\ f.pending = pending /\ f.pendingCell = pendingCell
  BY <1>1, <1>2 DEF Emitters
<1> QED BY <1>4, <1>6, <1>7

\* A commit moves layers without sharing a cell.
LEMMA CommitSound ==
    ASSUME NEW e, Sound(e), NEW regs \in SUBSET Regs,
           \A q \in Regs : e.pending[q].present => Whole(e, q),
           NEW f, f = CommitPending(e, regs)
    PROVE  Sound(f) /\ Extends(e, f)
<1> DEFINE from(q, b) == b \/ Moves(e, regs, q)
<1>1. /\ f \in Emitters /\ f.locals = e.locals
      /\ \A q \in Regs :
           /\ f.committed[q] = IF Moves(e, regs, q) THEN e.pending[q] ELSE e.committed[q]
           /\ f.cell[q] = IF Moves(e, regs, q) THEN e.pendingCell[q] ELSE e.cell[q]
           /\ f.pending[q] = IF Moves(e, regs, q) THEN Absent ELSE e.pending[q]
           /\ f.pendingCell[q] = IF Moves(e, regs, q) THEN NoLocal ELSE e.pendingCell[q]
  BY CommitMoves
<1>2. Extends(e, f)
  BY <1>1 DEF Extends, Locals, At
<1>3. ASSUME NEW q \in Regs, NEW b \in BOOLEAN
      PROVE  \/ /\ LayerPrefix(f, q, b) = Absent
                /\ LayerCell(f, q, b) = NoLocal
             \/ /\ LayerPrefix(f, q, b) = LayerPrefix(e, q, from(q, b))
                /\ LayerCell(f, q, b) = LayerCell(e, q, from(q, b))
                /\ b => ~Moves(e, regs, q)
  BY <1>1 DEF LayerPrefix, LayerCell
<1>4. ASSUME NEW q \in Regs, NEW b \in BOOLEAN
      PROVE  from(q, b) \in BOOLEAN
  BY DEF Moves
<1> HIDE DEF from
<1>5. ASSUME NEW q \in Regs, NEW b \in BOOLEAN
      PROVE  SoundLayer(f, q, LayerPrefix(f, q, b), LayerCell(f, q, b))
  <2>1. CASE LayerPrefix(f, q, b) = Absent /\ LayerCell(f, q, b) = NoLocal
    BY <2>1 DEF SoundLayer, Absent, PrefixRecords, Covers, LocalNames
  <2>2. CASE /\ LayerPrefix(f, q, b) = LayerPrefix(e, q, from(q, b))
             /\ LayerCell(f, q, b) = LayerCell(e, q, from(q, b))
    <3>1. SoundLayer(e, q, LayerPrefix(e, q, from(q, b)), LayerCell(e, q, from(q, b)))
      BY <1>4 DEF Sound
    <3>2. SoundLayer(f, q, LayerPrefix(e, q, from(q, b)), LayerCell(e, q, from(q, b)))
      BY <1>2, <3>1, SoundLayerKept
    <3> QED BY <2>2, <3>2
  <2> QED BY <1>3, <2>1, <2>2
<1>6. ASSUME NEW r \in Regs, NEW b \in BOOLEAN, LayerCell(f, r, b) # NoLocal,
             NEW q \in Regs, NEW d \in BOOLEAN
      PROVE  /\ LayerPrefix(f, q, d).local # LayerCell(f, r, b)
             /\ q # r \/ d # b => LayerCell(f, q, d) # LayerCell(f, r, b)
  <2>1. /\ LayerCell(f, r, b) = LayerCell(e, r, from(r, b))
        /\ b => ~Moves(e, regs, r)
    BY <1>3, <1>6
  <2>2. PrivateCell(e, r, from(r, b)) /\ LayerCell(e, r, from(r, b)) # NoLocal
    BY <1>4, <1>6, <2>1 DEF Sound
  <2>3. CASE LayerPrefix(f, q, d) = Absent /\ LayerCell(f, q, d) = NoLocal
    BY <1>6, <2>3 DEF Absent
  <2>4. CASE /\ LayerPrefix(f, q, d) = LayerPrefix(e, q, from(q, d))
             /\ LayerCell(f, q, d) = LayerCell(e, q, from(q, d))
             /\ d => ~Moves(e, regs, q)
    <3>1. LayerPrefix(e, q, from(q, d)).local # LayerCell(e, r, from(r, b))
      BY <1>4, <2>2 DEF PrivateCell
    <3>2. ASSUME q # r \/ d # b
          PROVE  q # r \/ from(q, d) # from(r, b)
      BY <2>1, <2>4, <3>2 DEF from, Moves
    <3>3. q # r \/ d # b => LayerCell(e, q, from(q, d)) # LayerCell(e, r, from(r, b))
      BY <1>4, <2>2, <3>2 DEF PrivateCell
    <3> QED BY <2>1, <2>4, <3>1, <3>3
  <2> QED BY <1>3, <2>3, <2>4
<1> QED BY <1>1, <1>2, <1>5, <1>6 DEF Sound, PrivateCell

\* What is true of the registers after a commit of regs.
Committed(e, f, regs) ==
    /\ Sound(f)
    /\ \A q \in Regs :
         /\ CurrentFull(f, q) = CurrentFull(e, q)
         /\ Settled(e, q) => Settled(f, q)
         /\ e.committed[q].present => f.committed[q].present
         /\ q \in regs => /\ ~f.pending[q].present
                          /\ CommittedFull(f, q) = CurrentFull(e, q)
                          /\ e.pending[q].present => f.committed[q].present
         /\ q \notin regs => SameLayers(e, f, q) /\ SameValues(e, f, q)

\* A commit changes no current value: a whole pending layer hides nothing
\* that its register needs from the committed one.
LEMMA CommitRight ==
    ASSUME NEW e, Sound(e), StateTyped, NEW regs \in SUBSET Regs,
           \A q \in Regs : e.pending[q].present => Whole(e, q),
           NEW f, f = CommitPending(e, regs)
    PROVE  Committed(e, f, regs)
<1>1. /\ f \in Emitters /\ f.locals = e.locals
      /\ \A q \in Regs :
           /\ f.committed[q] = IF Moves(e, regs, q) THEN e.pending[q] ELSE e.committed[q]
           /\ f.cell[q] = IF Moves(e, regs, q) THEN e.pendingCell[q] ELSE e.cell[q]
           /\ f.pending[q] = IF Moves(e, regs, q) THEN Absent ELSE e.pending[q]
           /\ f.pendingCell[q] = IF Moves(e, regs, q) THEN NoLocal ELSE e.pendingCell[q]
  BY CommitMoves
<1>2. Sound(f) /\ Extends(e, f)
  BY CommitSound
<1>3. ASSUME NEW q \in Regs, ~Moves(e, regs, q)
      PROVE  SameLayers(e, f, q) /\ SameValues(e, f, q)
  <2>1. SameLayers(e, f, q)
    BY <1>1, <1>3 DEF SameLayers, LayerPrefix, LayerCell
  <2> QED BY <1>2, <2>1, ValuesKept
<1>4. ASSUME NEW q \in Regs, Moves(e, regs, q)
      PROVE  CommittedFull(f, q) = CurrentFull(e, q)
  <2>1. \A l : At(f, l) = At(e, l)
    BY <1>1 DEF At
  <2>2. Whole(e, q) /\ e.pending[q].covers \in Covers /\ e.committed[q].covers \in Covers
    BY <1>4, LayersSound DEF Moves, SoundLayer, PrefixRecords
  <2>3. ASSUME NEW s \in Segments
        PROVE  CommittedFull(f, q)[s] = CurrentFull(e, q)[s]
    <3>1. CommittedFull(f, q)[s] =
            IF s \in e.pending[q].covers THEN At(e, e.pending[q].local)[s]
            ELSE IF e.pendingCell[q] # NoLocal THEN At(e, e.pendingCell[q])[s] ELSE memory[q][s]
      BY <1>1, <1>2, <1>4, <2>1, ValueOfSegment
    <3>2. s \notin e.pending[q].covers /\ e.pendingCell[q] = NoLocal =>
            CommittedFull(e, q)[s] = memory[q][s]
      <4>1. SUFFICES ASSUME s \notin e.pending[q].covers, e.pendingCell[q] = NoLocal
                     PROVE  CommittedFull(e, q)[s] = memory[q][s]
        OBVIOUS
      <4>2. e.committed[q].covers \subseteq e.pending[q].covers /\ e.cell[q] = NoLocal
        BY <2>2, <4>1 DEF Whole, Segments
      <4> QED BY <4>1, <4>2, ValueOfSegment
    <3> QED BY <3>1, <3>2, ValueOfSegment
  <2>4. CommittedFull(f, q) \in Values /\ CurrentFull(e, q) \in Values
    BY <1>2, LayerValues
  <2> QED BY <2>3, <2>4, ValuesEqual
<1>5. ASSUME NEW q \in Regs
      PROVE  ~f.pending[q].present => CurrentFull(f, q) = CommittedFull(f, q)
  <2>1. SUFFICES ASSUME ~f.pending[q].present
                 PROVE  CurrentFull(f, q) = CommittedFull(f, q)
    OBVIOUS
  <2>2. f.pending[q].covers = {} /\ f.pendingCell[q] = NoLocal
    BY <1>2, <2>1, LayersSound DEF SoundLayer
  <2>3. \A s \in Segments : CurrentFull(f, q)[s] = CommittedFull(f, q)[s]
    BY <1>2, <2>2, ValueOfSegment
  <2> QED BY <1>2, <2>3, LayerValues, ValuesEqual
<1>6. ASSUME NEW q \in Regs, Moves(e, regs, q)
      PROVE  ~f.pending[q].present /\ f.committed[q].present
  BY <1>1, <1>6 DEF Moves, Absent
<1>7. ASSUME NEW q \in Regs
      PROVE  CurrentFull(f, q) = CurrentFull(e, q)
  BY <1>3, <1>4, <1>5, <1>6 DEF SameValues
<1>8. ASSUME NEW q \in Regs, Settled(e, q)
      PROVE  Settled(f, q)
  <2>1. CASE Moves(e, regs, q)
    <3>1. \A d \in BOOLEAN : LayerCell(f, q, d) # NoLocal => LayerCell(e, q, TRUE) # NoLocal
      BY <1>1, <2>1 DEF LayerCell
    <3> QED BY <1>6, <1>8, <2>1, <3>1 DEF Settled
  <2>2. CASE ~Moves(e, regs, q)
    BY <1>3, <1>8, <2>2, LayersSettled
  <2> QED BY <2>1, <2>2
<1>9. ASSUME NEW q \in regs
      PROVE  /\ ~f.pending[q].present
             /\ CommittedFull(f, q) = CurrentFull(e, q)
             /\ e.pending[q].present => f.committed[q].present
  <2>1. CASE Moves(e, regs, q)
    BY <1>4, <1>6, <2>1
  <2>2. CASE ~Moves(e, regs, q)
    <3>1. ~e.pending[q].present /\ ~f.pending[q].present
      BY <1>1, <2>2 DEF Moves
    <3> QED BY <1>5, <1>7, <3>1
  <2> QED BY <2>1, <2>2
<1>10. ASSUME NEW q \in Regs, e.committed[q].present
       PROVE  f.committed[q].present
  BY <1>1, <1>6, <1>10
<1>11. ASSUME NEW q \in Regs, q \notin regs
       PROVE  SameLayers(e, f, q) /\ SameValues(e, f, q)
  BY <1>3, <1>11 DEF Moves
<1> QED BY <1>2, <1>7, <1>8, <1>9, <1>10, <1>11 DEF Committed

\* A captured register whose committed layer has a cell.
Frozen(e, regs, q) == q \in regs /\ e.cell[q] # NoLocal

\* What the copy of a captured register holds; without its code, zero.
FrozenValue(e, q, live) == IF live THEN CommittedFull(e, q) ELSE Fill(ZeroToken)

\* What a capture does to each register.
LEMMA CaptureFreezes ==
    ASSUME NEW e, Sound(e), StateTyped, ZeroToken \in Tokens,
           NEW regs \in SUBSET Regs, NEW live \in BOOLEAN, NEW f, f = Capture(e, regs, live)
    PROVE  /\ f \in Emitters
           /\ f.pending = e.pending /\ f.pendingCell = e.pendingCell
           /\ \A q \in Regs :
                /\ f.locals[q] = IF Frozen(e, regs, q)
                                 THEN Append(e.locals[q], FrozenValue(e, q, live)) ELSE e.locals[q]
                /\ f.committed[q] = IF Frozen(e, regs, q)
                                    THEN Prefix(<<q, Len(e.locals[q]) + 1>>, EAX)
                                    ELSE e.committed[q]
                /\ f.cell[q] = IF Frozen(e, regs, q) THEN NoLocal ELSE e.cell[q]
<1> DEFINE locals == [q \in Regs |-> IF Frozen(e, regs, q)
                                     THEN Append(e.locals[q], FrozenValue(e, q, live))
                                     ELSE e.locals[q]]
           committed == [q \in Regs |-> IF Frozen(e, regs, q)
                                        THEN Prefix(<<q, Len(e.locals[q]) + 1>>, EAX)
                                        ELSE e.committed[q]]
           cell == [q \in Regs |-> IF Frozen(e, regs, q) THEN NoLocal ELSE e.cell[q]]
<1>1. e \in Emitters
  BY DEF Sound
<1>2. f = [e EXCEPT !.locals = locals, !.committed = committed, !.cell = cell]
  BY <1>1 DEF Capture, Emitters, Frozen, FrozenValue
<1>3. locals \in [Regs -> Seq(Values)]
  <2>1. ASSUME NEW q \in Regs
        PROVE  e.locals[q] \in Seq(Values) /\ FrozenValue(e, q, live) \in Values
    BY <1>1, LayerValues, OverlayTyped DEF Emitters, FrozenValue
  <2>2. ASSUME NEW q \in Regs
        PROVE  Append(e.locals[q], FrozenValue(e, q, live)) \in Seq(Values)
    BY <2>1
  <2> QED BY <2>1, <2>2
<1>4. committed \in [Regs -> PrefixRecords]
  <2>1. ASSUME NEW q \in Regs
        PROVE  Prefix(<<q, Len(e.locals[q]) + 1>>, EAX) \in PrefixRecords
    <3>1. e.locals[q] \in Seq(Values)
      BY <1>1 DEF Emitters
    <3>2. Len(e.locals[q]) + 1 \in Nat
      BY <3>1
    <3> QED BY <3>2 DEF Prefix, PrefixRecords, Covers, LocalNames
  <2> QED BY <1>1, <2>1 DEF Emitters
<1>5. cell \in [Regs -> LocalNames]
  BY <1>1 DEF Emitters, LocalNames
<1> HIDE DEF locals, committed, cell
<1>6. /\ f \in Emitters
      /\ f.locals = locals /\ f.committed = committed /\ f.cell = cell
      /\ f.pending = e.pending /\ f.pendingCell = e.pendingCell
  BY <1>1, <1>2, <1>3, <1>4, <1>5 DEF Emitters
<1> QED BY <1>6 DEF locals, committed, cell

\* A capture adds locals that nothing named.
LEMMA CaptureAdds ==
    ASSUME NEW e, Sound(e), StateTyped, ZeroToken \in Tokens,
           NEW regs \in SUBSET Regs, NEW live \in BOOLEAN, NEW f, f = Capture(e, regs, live)
    PROVE  /\ Extends(e, f)
           /\ \A q \in Regs : Frozen(e, regs, q) =>
                /\ f.committed[q].covers = EAX /\ f.committed[q].present
                /\ f.committed[q].local \in Locals(f) \ Locals(e)
                /\ f.committed[q].local # NoLocal
                /\ At(f, f.committed[q].local) = FrozenValue(e, q, live)
<1>1. \A q \in Regs :
        /\ f.locals[q] = IF Frozen(e, regs, q)
                         THEN Append(e.locals[q], FrozenValue(e, q, live)) ELSE e.locals[q]
        /\ f.committed[q] = IF Frozen(e, regs, q)
                            THEN Prefix(<<q, Len(e.locals[q]) + 1>>, EAX)
                            ELSE e.committed[q]
  BY CaptureFreezes
<1>2. ASSUME NEW q \in Regs
      PROVE  e.locals[q] \in Seq(Values) /\ FrozenValue(e, q, live) \in Values
  <2>1. FrozenValue(e, q, live) \in Values
    <3>1. Fill(ZeroToken) \in Values
      BY DEF Fill, Values
    <3> QED BY <3>1, LayerValues DEF FrozenValue
  <2> QED BY <2>1 DEF Sound, Emitters
<1>3. ASSUME NEW q \in Regs, NEW n \in 1 .. Len(e.locals[q])
      PROVE  n \in 1 .. Len(f.locals[q]) /\ f.locals[q][n] = e.locals[q][n]
  <2>1. CASE f.locals[q] = e.locals[q]
    BY <1>2, <2>1
  <2>2. CASE f.locals[q] = Append(e.locals[q], FrozenValue(e, q, live))
    BY <1>2, <2>2
  <2> QED BY <1>1, <2>1, <2>2
<1>4. Extends(e, f)
  <2>1. SUFFICES ASSUME NEW l \in Locals(e)
                 PROVE  l \in Locals(f) /\ At(f, l) = At(e, l)
    BY DEF Extends
  <2>2. PICK q \in Regs : Own(e, q, l)
    BY LocalNamed
  <2>3. PICK n \in 1 .. Len(e.locals[q]) : l = <<q, n>>
    BY <2>2 DEF Own
  <2>4. n \in 1 .. Len(f.locals[q]) /\ f.locals[q][n] = e.locals[q][n]
    BY <1>3
  <2>5. Own(f, q, l)
    BY <2>3, <2>4 DEF Own
  <2>6. l \in Locals(f)
    BY <2>5, LocalNamed
  <2> QED BY <2>3, <2>4, <2>6 DEF At
<1>5. ASSUME NEW q \in Regs, Frozen(e, regs, q)
      PROVE  /\ f.committed[q].covers = EAX /\ f.committed[q].present
             /\ f.committed[q].local \in Locals(f) \ Locals(e)
             /\ f.committed[q].local # NoLocal
             /\ At(f, f.committed[q].local) = FrozenValue(e, q, live)
  <2> DEFINE n == Len(e.locals[q]) + 1
             l == <<q, n>>
  <2>1. f.committed[q] = Prefix(l, EAX)
    BY <1>1, <1>5
  <2>2. f.locals[q] = Append(e.locals[q], FrozenValue(e, q, live))
    BY <1>1, <1>5
  <2>3. n \in 1 .. Len(f.locals[q]) /\ f.locals[q][n] = FrozenValue(e, q, live)
    BY <1>2, <2>2
  <2>4. Own(f, q, l)
    BY <2>3 DEF Own
  <2>5. l \in Locals(f)
    BY <2>4, LocalNamed
  <2>6. l \notin Locals(e)
    <3>1. SUFFICES ASSUME l \in Locals(e)
                   PROVE  FALSE
      OBVIOUS
    <3>2. PICK r \in Regs : Own(e, r, l)
      BY <3>1, LocalNamed
    <3>3. PICK k \in 1 .. Len(e.locals[r]) : l = <<r, k>>
      BY <3>2 DEF Own
    <3> QED BY <1>2, <3>3
  <2>7. At(f, l) = FrozenValue(e, q, live) /\ l # NoLocal
    BY <2>3 DEF At, NoLocal
  <2> HIDE DEF l
  <2>8. /\ f.committed[q].local = l
        /\ f.committed[q].covers = EAX /\ f.committed[q].present
    BY <2>1 DEF Prefix
  <2> QED BY <2>5, <2>6, <2>7, <2>8
<1> QED BY <1>4, <1>5

\* What is true of the registers after a capture of regs.
Captured(e, f, regs, live) ==
    /\ Sound(f)
    /\ \A q \in Regs :
         /\ live \/ ~Frozen(e, regs, q) => SameValues(e, f, q)
         /\ Settled(e, q) => Settled(f, q)
         /\ f.pending[q] = e.pending[q]
         /\ e.committed[q].present => f.committed[q].present
         /\ q \in regs => f.cell[q] = NoLocal

\* A capture whose copies run changes no value; it leaves prefixes only.
LEMMA CaptureRight ==
    ASSUME NEW e, Sound(e), StateTyped, ZeroToken \in Tokens,
           NEW regs \in SUBSET Regs, NEW live \in BOOLEAN, NEW f, f = Capture(e, regs, live)
    PROVE  Captured(e, f, regs, live)
<1>1. /\ f \in Emitters
      /\ f.pending = e.pending /\ f.pendingCell = e.pendingCell
      /\ \A q \in Regs :
           /\ ~Frozen(e, regs, q) => f.committed[q] = e.committed[q]
           /\ f.cell[q] = IF Frozen(e, regs, q) THEN NoLocal ELSE e.cell[q]
  <2>1. /\ f \in Emitters
        /\ f.pending = e.pending /\ f.pendingCell = e.pendingCell
        /\ \A q \in Regs :
             /\ f.committed[q] = IF Frozen(e, regs, q)
                                 THEN Prefix(<<q, Len(e.locals[q]) + 1>>, EAX)
                                 ELSE e.committed[q]
             /\ f.cell[q] = IF Frozen(e, regs, q) THEN NoLocal ELSE e.cell[q]
    BY CaptureFreezes
  <2> QED BY <2>1
<1>2. /\ Extends(e, f)
      /\ \A q \in Regs : Frozen(e, regs, q) =>
           /\ f.committed[q].covers = EAX /\ f.committed[q].present
           /\ f.committed[q].local \in Locals(f) \ Locals(e)
           /\ f.committed[q].local # NoLocal
           /\ At(f, f.committed[q].local) = FrozenValue(e, q, live)
  BY CaptureAdds
<1>3. ASSUME NEW q \in Regs, NEW b \in BOOLEAN, b \/ ~Frozen(e, regs, q)
      PROVE  LayerPrefix(f, q, b) = LayerPrefix(e, q, b) /\ LayerCell(f, q, b) = LayerCell(e, q, b)
  BY <1>1, <1>3 DEF LayerPrefix, LayerCell
<1>4. ASSUME NEW q \in Regs, Frozen(e, regs, q)
      PROVE  /\ LayerPrefix(f, q, FALSE) = f.committed[q]
             /\ LayerCell(f, q, FALSE) = NoLocal
  BY <1>1, <1>4 DEF LayerPrefix, LayerCell
<1>5. ASSUME NEW q \in Regs, NEW b \in BOOLEAN
      PROVE  SoundLayer(f, q, LayerPrefix(f, q, b), LayerCell(f, q, b))
  <2>1. CASE b \/ ~Frozen(e, regs, q)
    <3>1. SoundLayer(e, q, LayerPrefix(e, q, b), LayerCell(e, q, b))
      BY DEF Sound
    <3> QED BY <1>2, <1>3, <2>1, <3>1, SoundLayerKept
  <2>2. CASE ~b /\ Frozen(e, regs, q)
    <3>1. SoundLayer(f, q, f.committed[q], NoLocal)
      <4>1. f.committed[q] \in PrefixRecords
        BY <1>1 DEF Emitters
      <4>2. f.committed[q].covers = EAX /\ f.committed[q].present
        BY <1>2, <2>2
      <4> QED BY <1>2, <2>2, <4>1, <4>2 DEF SoundLayer, EAX
    <3>2. FALSE = b
      BY <2>2
    <3> QED BY <1>4, <2>2, <3>1, <3>2
  <2> QED BY <2>1, <2>2
<1>6. ASSUME NEW r \in Regs, NEW b \in BOOLEAN, LayerCell(f, r, b) # NoLocal,
             NEW q \in Regs, NEW d \in BOOLEAN
      PROVE  /\ LayerPrefix(f, q, d).local # LayerCell(f, r, b)
             /\ q # r \/ d # b => LayerCell(f, q, d) # LayerCell(f, r, b)
  <2>1. LayerCell(f, r, b) = LayerCell(e, r, b) /\ LayerCell(e, r, b) # NoLocal
    BY <1>1, <1>6 DEF LayerCell
  <2>2. PrivateCell(e, r, b) /\ LayerCell(e, r, b) \in Locals(e)
    BY <2>1, LocalNamed DEF Sound, SoundLayer
  <2>3. LayerPrefix(f, q, d).local # LayerCell(e, r, b)
    <3>1. CASE d \/ ~Frozen(e, regs, q)
      BY <1>3, <2>1, <2>2, <3>1 DEF PrivateCell
    <3>2. CASE ~d /\ Frozen(e, regs, q)
      BY <1>2, <2>2, <3>2 DEF LayerPrefix
    <3> QED BY <3>1, <3>2
  <2>4. LayerCell(f, q, d) \in {NoLocal, LayerCell(e, q, d)}
    BY <1>1 DEF LayerCell
  <2> QED BY <2>1, <2>2, <2>3, <2>4 DEF PrivateCell
<1>7. Sound(f)
  BY <1>1, <1>5, <1>6 DEF Sound, PrivateCell
<1>8. ASSUME NEW q \in Regs, live \/ ~Frozen(e, regs, q)
      PROVE  SameValues(e, f, q)
  <2>1. CASE ~Frozen(e, regs, q)
    <3>1. SameLayers(e, f, q)
      BY <1>3, <2>1 DEF SameLayers
    <3> QED BY <1>2, <1>7, <3>1, ValuesKept
  <2>2. CASE Frozen(e, regs, q)
    <3>1. f.committed[q].covers = EAX
      BY <1>2, <2>2
    <3>2. CommittedFull(f, q) = CommittedFull(e, q)
      <4>1. \A s \in Segments : CommittedFull(f, q)[s] = CommittedFull(e, q)[s]
        <5>1. At(f, f.committed[q].local) = CommittedFull(e, q)
          BY <1>2, <1>8, <2>2 DEF FrozenValue
        <5> QED BY <1>7, <3>1, <5>1, ValueOfSegment DEF Segments
      <4>2. CommittedFull(f, q) \in Values /\ CommittedFull(e, q) \in Values
        BY <1>7, LayerValues
      <4> QED BY <4>1, <4>2, ValuesEqual
    <3>3. \A d \in BOOLEAN : SoundLayer(e, q, LayerPrefix(e, q, d), LayerCell(e, q, d))
      BY DEF Sound
    <3>4. \A d \in BOOLEAN : \A below :
            Resolve(f, LayerPrefix(e, q, d), LayerCell(e, q, d), below) =
            Resolve(e, LayerPrefix(e, q, d), LayerCell(e, q, d), below)
      BY <1>2, <3>3, ResolveKept
    <3>5. /\ CurrentFull(e, q) =
               Resolve(e, LayerPrefix(e, q, TRUE), LayerCell(e, q, TRUE), CommittedFull(e, q))
          /\ CurrentFull(f, q) =
               Resolve(f, LayerPrefix(f, q, TRUE), LayerCell(f, q, TRUE), CommittedFull(f, q))
      BY <1>7, LayerValues
    <3>6. LayerPrefix(f, q, TRUE) = LayerPrefix(e, q, TRUE) /\ LayerCell(f, q, TRUE) = LayerCell(e, q, TRUE)
      BY <1>3
    <3> QED BY <3>2, <3>4, <3>5, <3>6 DEF SameValues
  <2> QED BY <2>1, <2>2
<1>9. ASSUME NEW q \in Regs, Settled(e, q)
      PROVE  Settled(f, q)
  <2>1. \A d \in BOOLEAN : LayerCell(f, q, d) # NoLocal => HasCells(block)
    BY <1>1, <1>9 DEF Settled, LayerCell
  <2>2. Whole(e, q) => Whole(f, q)
    <3>1. CASE ~Frozen(e, regs, q)
      BY <1>1, <3>1 DEF Whole
    <3>2. CASE Frozen(e, regs, q)
      <4>1. f.committed[q].covers = EAX
        BY <1>2, <3>2
      <4> QED BY <1>1, <3>2, <4>1 DEF Whole, Frozen
    <3> QED BY <3>1, <3>2
  <2> QED BY <1>1, <1>9, <2>1, <2>2 DEF Settled
<1>10. ASSUME NEW q \in Regs, e.committed[q].present
       PROVE  f.committed[q].present
  BY <1>1, <1>2, <1>10
<1>11. ASSUME NEW q \in regs
       PROVE  f.cell[q] = NoLocal
  BY <1>1 DEF Frozen
<1> QED BY <1>1, <1>7, <1>8, <1>9, <1>10, <1>11 DEF Captured

\* A captured register is stored with its committed value, and the others
\* are left alone.
LEMMA StoredRight ==
    ASSUME NEW e, Sound(e), StateTyped, NEW regs \in SUBSET Regs,
           \A q \in regs : e.cell[q] = NoLocal,
           NEW m, m = Stored(e, regs)
    PROVE  /\ m \in [Regs -> Values]
           /\ \A q \in Regs : m[q] = IF q \in regs THEN CommittedFull(e, q) ELSE memory[q]
<1>1. ASSUME NEW q \in Regs
      PROVE  m[q] = IF q \in regs THEN CommittedFull(e, q) ELSE memory[q]
  <2>1. CASE q \notin regs
    BY <2>1 DEF Stored
  <2>2. CASE q \in regs
    <3> DEFINE v == IF e.committed[q].covers # {}
                    THEN Overlay(memory[q], At(e, e.committed[q].local), e.committed[q].covers)
                    ELSE memory[q]
    <3>1. m[q] = v
      BY <2>2 DEF Stored
    <3>2. \A s \in Segments : v[s] = CommittedFull(e, q)[s]
      BY <2>2, ValueOfSegment DEF Overlay
    <3>3. SoundLayer(e, q, e.committed[q], e.cell[q]) /\ e \in Emitters
      BY LayersSound
    <3>4. v \in Values
      <4>1. memory[q] \in Values
        BY DEF StateTyped
      <4>2. e.committed[q].covers # {} => At(e, e.committed[q].local) \in Values
        BY <3>3, LocalTyped DEF SoundLayer
      <4> QED BY <4>1, <4>2 DEF Overlay, Values
    <3>5. CommittedFull(e, q) \in Values
      BY LayerValues
    <3> HIDE DEF v
    <3>6. v = CommittedFull(e, q)
      BY <3>2, <3>4, <3>5, ValuesEqual
    <3> QED BY <2>2, <3>1, <3>6
  <2> QED BY <2>1, <2>2
<1>2. m = [q \in Regs |-> m[q]]
  BY DEF Stored
<1>3. \A q \in Regs : m[q] \in Values
  BY <1>1, LayerValues DEF StateTyped
<1> QED BY <1>1, <1>2, <1>3

-----------------------------------------------------------------------------
(* The inductive invariant.                                                *)

\* The values of the two layers over a state m.
CommittedOver(e, r, m) ==
    Resolve(e, LayerPrefix(e, r, FALSE), LayerCell(e, r, FALSE), m[r])
CurrentOver(e, r, m) ==
    Resolve(e, LayerPrefix(e, r, TRUE), LayerCell(e, r, TRUE), CommittedOver(e, r, m))

RegTyped ==
    /\ block \in Shapes
    /\ Sound(emitter)
    /\ memory \in [Regs -> Values]
    /\ arch \in [Regs -> Values]
    /\ archBefore \in [Regs -> Values]
    /\ dirty \in SUBSET Regs
    /\ speculative \in SUBSET Regs
    /\ faultsLeft \in 0 .. block.faults
    /\ phase \in {"between", "in", "done"}
    /\ written \in 0 .. MaxOps

\* Registers an exit stores have something to store.
StoresReady ==
    /\ \A q \in dirty : emitter.committed[q].present
    /\ phase # "done" =>
         \A q \in speculative : emitter.committed[q].present \/ emitter.pending[q].present

\* The layers hold the registers of the program, and, while the instruction
\* can fault, the committed ones those of its start.
LayersHold ==
    phase # "done" =>
        \A q \in Regs :
            /\ CurrentOver(emitter, q, memory) = arch[q]
            /\ faultsLeft > 0 => CommittedOver(emitter, q, memory) = archBefore[q]
            /\ q \notin dirty => memory[q] = archBefore[q]
            /\ q \notin speculative => arch[q] = archBefore[q]

\* What is pending is of this instruction, and whole.
PendingWhole ==
    phase # "done" =>
        \A q \in Regs :
            /\ emitter.pending[q].present => faultsLeft > 0 /\ Whole(emitter, q)
            /\ q \notin speculative => ~emitter.pending[q].present
            /\ \A b \in BOOLEAN : LayerCell(emitter, q, b) # NoLocal => HasCells(block)

PhaseInv ==
    /\ phase = "between" => speculative = {} /\ faultsLeft = 0
    /\ phase = "done" => faultsLeft = 0

RegInv == RegTyped /\ StoresReady /\ LayersHold /\ PendingWhole /\ PhaseInv

\* An operation that changes registers inside an instruction: what a step
\* has to show.
Continues(e, architecture, before, stale, touched) ==
    /\ Sound(e)
    /\ architecture \in [Regs -> Values]
    /\ before \in [Regs -> Values]
    /\ stale \in SUBSET Regs
    /\ touched \in SUBSET Regs
    /\ \A q \in Regs :
         /\ Settled(e, q)
         /\ CurrentFull(e, q) = architecture[q]
         /\ faultsLeft > 0 => CommittedFull(e, q) = before[q]
         /\ q \notin stale => memory[q] = before[q]
         /\ q \in stale => e.committed[q].present
         /\ q \notin touched => architecture[q] = before[q] /\ ~e.pending[q].present
         /\ q \in touched => e.committed[q].present \/ e.pending[q].present

\* The values of the layers, as the code generator computes them.
LEMMA OverValues ==
    ASSUME NEW e, Sound(e), StateTyped, NEW r \in Regs
    PROVE  /\ CommittedFull(e, r) = CommittedOver(e, r, memory)
           /\ CurrentFull(e, r) = CurrentOver(e, r, memory)
BY LayerValues DEF CommittedOver, CurrentOver

\* Inside an instruction the invariant is what a step starts from ...
LEMMA InvContinues ==
    ASSUME RegInv, phase # "done"
    PROVE  StateTyped /\ Continues(emitter, arch, archBefore, dirty, speculative)
<1>1. StateTyped /\ Sound(emitter)
  BY DEF RegInv, RegTyped, StateTyped
<1>2. ASSUME NEW q \in Regs
      PROVE  /\ CommittedFull(emitter, q) = CommittedOver(emitter, q, memory)
             /\ CurrentFull(emitter, q) = CurrentOver(emitter, q, memory)
  BY <1>1, OverValues
<1>3. ASSUME NEW q \in Regs
      PROVE  Settled(emitter, q)
  BY DEF RegInv, PendingWhole, Settled, PreserveCommitted
<1> QED BY <1>1, <1>2, <1>3 DEF RegInv, RegTyped, StoresReady, LayersHold, PendingWhole, Continues

\* ... and what it has to show.
LEMMA ContinuesInv ==
    ASSUME RegInv, phase = "in", UNCHANGED <<block, memory, phase>>,
           written' \in 0 .. MaxOps, faultsLeft' \in 0 .. block.faults,
           faultsLeft' > 0 <=> faultsLeft > 0,
           Continues(emitter', arch', archBefore', dirty', speculative')
    PROVE  RegInv'
<1>1. StateTyped /\ Sound(emitter')
  BY DEF RegInv, RegTyped, StateTyped, Continues
<1>2. ASSUME NEW q \in Regs
      PROVE  /\ CommittedFull(emitter', q) = CommittedOver(emitter', q, memory)
             /\ CurrentFull(emitter', q) = CurrentOver(emitter', q, memory)
  BY <1>1, OverValues
<1>3. RegTyped'
  BY DEF RegInv, RegTyped, Continues
<1>4. StoresReady'
  BY DEF StoresReady, Continues
<1>5. LayersHold'
  BY <1>2 DEF LayersHold, Continues
<1>6. PendingWhole'
  BY DEF PendingWhole, Continues, Settled, PreserveCommitted
<1>7. PhaseInv'
  BY DEF PhaseInv, RegInv
<1> QED BY <1>3, <1>4, <1>5, <1>6, <1>7 DEF RegInv

\* A read creates no entry but for a value it copies.
LEMMA KeptPresence ==
    ASSUME NEW e, Sound(e), NEW r \in Regs, NEW f, Kept(e, f, r), NEW q \in Regs
    PROVE  /\ f.pending[q].present <=> e.pending[q].present
           /\ e.committed[q].present => f.committed[q].present
<1>1. CASE f = e
  BY <1>1
<1>2. CASE f # e /\ q # r
  <2>1. SameLayers(e, f, q)
    BY <1>2, KeptValues DEF Within, Others
  <2> QED BY <2>1 DEF SameLayers, LayerPrefix
<1>3. CASE f # e /\ q = r
  <2>1. PICK l : Copied(e, f, r, l)
    BY <1>3 DEF Kept
  <2>2. CASE Pends(e, r)
    <3>1. TRUE = Pends(e, r) /\ FALSE # Pends(e, r)
      BY <2>2 DEF Pends
    <3>2. f.pending[r] = Prefix(l, EAX)
      BY <2>1, <3>1 DEF Copied, LayerPrefix
    <3>3. f.committed[r] = e.committed[r]
      BY <2>1, <3>1 DEF Copied, Within, LayerPrefix
    <3>4. e.pending[r].present
      BY <2>2, LayersSound DEF Pends, SoundLayer
    <3> QED BY <1>3, <3>2, <3>3, <3>4 DEF Prefix
  <2>3. CASE ~Pends(e, r)
    <3>1. FALSE = Pends(e, r) /\ TRUE # Pends(e, r)
      BY <2>3 DEF Pends
    <3>2. f.committed[r] = Prefix(l, EAX)
      BY <2>1, <3>1 DEF Copied, LayerPrefix
    <3>3. f.pending[r] = e.pending[r]
      BY <2>1, <3>1 DEF Copied, Within, LayerPrefix
    <3> QED BY <1>3, <3>2, <3>3 DEF Prefix
  <2> QED BY <2>2, <2>3
<1> QED BY <1>1, <1>2, <1>3

\* A write leaves its register with an entry, and no other with a new one.
LEMMA WrotePresence ==
    ASSUME NEW e, NEW r \in Regs, NEW b \in BOOLEAN, NEW f, NEW v, Wrote(e, f, r, b, v),
           NEW q \in Regs
    PROVE  /\ q # r => (f.pending[q].present <=> e.pending[q].present)
           /\ e.committed[q].present => f.committed[q].present
           /\ f.committed[r].present \/ f.pending[r].present
<1>1. q # r => SameLayers(e, f, q)
  BY DEF Wrote, Within, Others
<1>2. CASE b
  <2>1. FALSE # b
    BY <1>2
  <2>2. LayerPrefix(f, r, FALSE) = LayerPrefix(e, r, FALSE)
    BY <2>1 DEF Wrote, Within
  <2> QED BY <1>1, <1>2, <2>2 DEF Wrote, SameLayers, LayerPrefix
<1>3. CASE ~b
  BY <1>1, <1>3 DEF Wrote, SameLayers, LayerPrefix
<1> QED BY <1>2, <1>3

\* A read changes no value of any register.
LEMMA KeptContinues ==
    ASSUME NEW e, StateTyped, NEW r \in Regs, NEW f, Kept(e, f, r),
           NEW a, NEW before, NEW stale, NEW touched, Continues(e, a, before, stale, touched)
    PROVE  Continues(f, a, before, stale, touched)
<1>1. Sound(e)
  BY DEF Continues
<1>2. Sound(f) /\ \A q \in Regs : SameValues(e, f, q)
  BY <1>1, KeptValues DEF Within
<1>3. \A q \in Regs : Settled(f, q)
  BY <1>1, KeptSettled DEF Continues
<1>4. \A q \in Regs : /\ f.pending[q].present <=> e.pending[q].present
                      /\ e.committed[q].present => f.committed[q].present
  BY <1>1, KeptPresence
<1> QED BY <1>2, <1>3, <1>4 DEF Continues, SameValues

\* A write changes the value of one register, and no committed one that a
\* fault still needs.
LEMMA WroteContinues ==
    ASSUME NEW e, StateTyped, NEW r \in Regs, NEW f, NEW v \in Values,
           NEW b \in BOOLEAN, b = PreserveCommitted, Wrote(e, f, r, b, v),
           NEW a, NEW before, NEW stale, NEW touched, Continues(e, a, before, stale, touched)
    PROVE  Continues(f, [a EXCEPT ![r] = v], before, stale, touched \cup {r})
<1> DEFINE w == [a EXCEPT ![r] = v]
<1>1. Sound(e) /\ Sound(f)
  BY DEF Continues, Wrote, Within
<1>2. \A q \in Regs : Settled(f, q)
  <2>1. \A q \in Regs : Settled(e, q)
    BY DEF Continues
  <2> QED BY <1>1, <2>1, WroteSettled
<1>3. \A q \in Regs : /\ q # r => (f.pending[q].present <=> e.pending[q].present)
                      /\ e.committed[q].present => f.committed[q].present
                      /\ f.committed[r].present \/ f.pending[r].present
  BY WrotePresence
<1>4. \A q \in Regs : q # r => SameValues(e, f, q)
  BY DEF Wrote, Within, Others
<1>5. faultsLeft > 0 => CommittedFull(f, r) = CommittedFull(e, r)
  BY DEF Wrote, Within, Below, PreserveCommitted
<1>6. /\ w \in [Regs -> Values] /\ w[r] = v
      /\ \A q \in Regs : q # r => w[q] = a[q]
  BY DEF Continues
<1> HIDE DEF w
<1>7. \A q \in Regs : CurrentFull(f, q) = w[q]
  BY <1>4, <1>6 DEF Continues, Wrote, SameValues
<1>8. \A q \in Regs : faultsLeft > 0 => CommittedFull(f, q) = before[q]
  BY <1>4, <1>5 DEF Continues, SameValues
<1>9. Continues(f, w, before, stale, touched \cup {r})
  BY <1>1, <1>2, <1>3, <1>6, <1>7, <1>8 DEF Continues
<1> QED BY <1>9 DEF w

-----------------------------------------------------------------------------
(* The actions.                                                            *)

\* The compiler knows nothing at first.
LEMMA InitRight ==
    ASSUME Init
    PROVE  RegInv
<1> DEFINE e == emitter
<1>1. \A q \in Regs, b \in BOOLEAN : LayerPrefix(e, q, b) = Absent /\ LayerCell(e, q, b) = NoLocal
  BY DEF Init, LayerPrefix, LayerCell
<1>2. e \in Emitters
  <2>1. Absent \in PrefixRecords /\ NoLocal \in LocalNames /\ <<>> \in Seq(Values)
    BY DEF Absent, PrefixRecords, Covers, LocalNames
  <2> QED BY <2>1 DEF Init, Emitters
<1>3. Sound(e)
  <2>1. \A q \in Regs : SoundLayer(e, q, Absent, NoLocal)
    BY DEF SoundLayer, Absent, PrefixRecords, Covers, LocalNames
  <2>2. \A q \in Regs, b \in BOOLEAN : SoundLayer(e, q, LayerPrefix(e, q, b), LayerCell(e, q, b))
    BY <1>1, <2>1
  <2>3. \A q \in Regs, b \in BOOLEAN : PrivateCell(e, q, b)
    BY <1>1 DEF PrivateCell
  <2> QED BY <1>2, <2>2, <2>3 DEF Sound
<1>4. memory \in [Regs -> Values] /\ arch = memory /\ archBefore = memory
  <2>1. \A q \in Regs : Fill(q) \in Values
    BY DEF Fill, Values, Tokens
  <2> QED BY <2>1 DEF Init
<1>5. block \in Shapes /\ block.faults \in Nat /\ MaxOps \in Nat
  BY SegmentAssumption DEF Init
<1>6. RegTyped
  BY <1>3, <1>4, <1>5 DEF Init, RegTyped
<1>7. StoresReady /\ PhaseInv
  BY DEF Init, StoresReady, PhaseInv
<1>8. PendingWhole
  <2>1. \A q \in Regs : ~e.pending[q].present
    BY DEF Init, Absent
  <2> QED BY <1>1, <2>1 DEF PendingWhole
<1>9. LayersHold
  <2>1. \A q \in Regs : memory[q] \in Values
    BY <1>4
  <2>2. ASSUME NEW q \in Regs
        PROVE  CommittedOver(e, q, memory) = memory[q]
    <3>1. LayerPrefix(e, q, FALSE).covers = {} /\ LayerCell(e, q, FALSE) = NoLocal
      BY DEF Init, Absent, LayerPrefix, LayerCell
    <3> QED BY <2>1, <3>1 DEF CommittedOver, Resolve, Values
  <2>3. ASSUME NEW q \in Regs
        PROVE  CurrentOver(e, q, memory) = memory[q]
    <3>1. LayerPrefix(e, q, TRUE).covers = {} /\ LayerCell(e, q, TRUE) = NoLocal
      BY DEF Init, Absent, LayerPrefix, LayerCell
    <3> QED BY <2>1, <2>2, <3>1 DEF CurrentOver, Resolve, Values
  <2>4. ~(faultsLeft > 0)
    BY DEF Init
  <2> QED BY <1>4, <2>3, <2>4 DEF LayersHold
<1> QED BY <1>6, <1>7, <1>8, <1>9 DEF RegInv

\* beginInstruction plans the fault exits.
LEMMA BeginKeeps ==
    ASSUME RegInv, UNCHANGED block, NEW faults \in 0 .. block.faults, BeginInstruction(faults)
    PROVE  RegInv'
<1>1. /\ phase = "between" /\ phase' = "in" /\ faultsLeft' = faults
      /\ UNCHANGED <<emitter, memory, arch, archBefore, dirty, speculative, written>>
  BY DEF BeginInstruction
<1>2. speculative = {} /\ faultsLeft = 0
  BY <1>1 DEF RegInv, PhaseInv
<1>3. StateTyped /\ Continues(emitter, arch, archBefore, dirty, speculative)
  BY <1>1, InvContinues
<1>4. ASSUME NEW q \in Regs
      PROVE  CommittedOver(emitter, q, memory) = archBefore[q] /\ ~emitter.pending[q].present
  <2>1. ~emitter.pending[q].present /\ arch[q] = archBefore[q] /\ CurrentFull(emitter, q) = arch[q]
    BY <1>2, <1>3 DEF Continues
  <2>2. Sound(emitter)
    BY <1>3 DEF Continues
  <2>3. CommittedFull(emitter, q) = CurrentFull(emitter, q)
    <3>1. emitter.pending[q].covers = {} /\ emitter.pendingCell[q] = NoLocal
      BY <2>1, <2>2, LayersSound DEF SoundLayer
    <3>2. \A s \in Segments : CurrentFull(emitter, q)[s] = CommittedFull(emitter, q)[s]
      BY <1>3, <2>2, <3>1, ValueOfSegment
    <3> QED BY <1>3, <2>2, <3>2, LayerValues, ValuesEqual
  <2> QED BY <1>3, <2>1, <2>2, <2>3, OverValues
<1>5. RegTyped'
  BY <1>1 DEF RegInv, RegTyped
<1>6. StoresReady' /\ PhaseInv'
  BY <1>1, <1>2 DEF RegInv, StoresReady, PhaseInv
<1>7. LayersHold'
  BY <1>1, <1>4 DEF RegInv, LayersHold
<1>8. PendingWhole'
  BY <1>1, <1>4 DEF RegInv, PendingWhole
<1> QED BY <1>5, <1>6, <1>7, <1>8 DEF RegInv

\* A read copies at most, and copies what is there.
LEMMA ReadKeeps ==
    ASSUME RegInv, UNCHANGED block, NEW r \in Regs, NEW alias \in Aliases, Read(r, alias)
    PROVE  RegInv'
<1>1. /\ phase = "in" /\ emitter' = ReadAlias(emitter, r, alias).to
      /\ UNCHANGED <<memory, arch, archBefore, dirty, speculative, faultsLeft, phase, written>>
  BY DEF Read
<1>2. StateTyped /\ Continues(emitter, arch, archBefore, dirty, speculative)
  BY <1>1, InvContinues
<1>3. Kept(emitter, emitter', r)
  BY <1>1, <1>2, ReadRight DEF Continues
<1>4. Continues(emitter', arch, archBefore, dirty, speculative)
  BY <1>2, <1>3, KeptContinues
<1>5. written' \in 0 .. MaxOps /\ faultsLeft' \in 0 .. block.faults
  BY <1>1 DEF RegInv, RegTyped
<1>6. Continues(emitter', arch', archBefore', dirty', speculative')
  BY <1>1, <1>4
<1> QED BY <1>1, <1>5, <1>6, ContinuesInv

\* Writes are preserved or not.
LEMMA PreserveBoolean == \E b \in BOOLEAN : b = PreserveCommitted
<1>1. CASE faultsLeft > 0
  <2>1. TRUE = (faultsLeft > 0)
    BY <1>1
  <2> QED BY <2>1 DEF PreserveCommitted
<1>2. CASE ~(faultsLeft > 0)
  <2>1. FALSE = (faultsLeft > 0)
    BY <1>2
  <2> QED BY <2>1 DEF PreserveCommitted
<1> QED BY <1>1, <1>2

\* A write that leaves its value, whatever its emission does.
LEMMA AssignKeeps ==
    ASSUME RegInv, UNCHANGED block, NEW r \in Regs, NEW v \in Values, Assign(r, v),
           NEW g, Continues(g, arch, archBefore, dirty, speculative),
           Wrote(g, emitter', r, PreserveCommitted, v)
    PROVE  RegInv'
<1>1. /\ phase = "in" /\ written < MaxOps /\ written' = written + 1
      /\ arch' = [arch EXCEPT ![r] = v] /\ speculative' = speculative \cup {r}
      /\ UNCHANGED <<memory, archBefore, dirty, faultsLeft, phase>>
  BY DEF Assign
<1>2. PICK b \in BOOLEAN : b = PreserveCommitted
  BY PreserveBoolean
<1>3. StateTyped
  BY <1>1, InvContinues
<1>4. Continues(emitter', [arch EXCEPT ![r] = v], archBefore, dirty, speculative \cup {r})
  BY <1>2, <1>3, WroteContinues
<1>5. written' \in 0 .. MaxOps /\ faultsLeft' \in 0 .. block.faults
  BY <1>1, SegmentAssumption DEF RegInv, RegTyped
<1>6. Continues(emitter', arch', archBefore', dirty', speculative')
  BY <1>1, <1>4
<1> QED BY <1>1, <1>5, <1>6, ContinuesInv

\* The tokens of the writes are in range.
LEMMA TokensTyped ==
    ASSUME RegInv, written < MaxOps
    PROVE  WrittenTyped
<1>1. written + 1 \in 1 .. MaxOps
  BY SegmentAssumption DEF RegInv, RegTyped
<1> QED BY <1>1 DEF RegInv, RegTyped, WrittenTyped, Tokens

\* A write of an alias, of whatever value.
LEMMA WriteKeeps ==
    ASSUME RegInv, SafeShape(block), UNCHANGED block, NEW r \in Regs, NEW alias, NEW read,
           alias \in block.aliases, read = {} \/ <<alias, read>> \in block.selfReads,
           Write(r, alias, read)
    PROVE  RegInv'
<1> DEFINE v == Overlay(arch[r], Fill(written + 1), alias)
<1>1. /\ phase = "in" /\ written < MaxOps
      /\ PreserveCommitted => alias \in block.earlyWrites
      /\ emitter' = EmitWriteAlias(emitter, r, alias, read)
      /\ Assign(r, v)
  BY DEF Write, Assign
<1>2. StateTyped /\ Continues(emitter, arch, archBefore, dirty, speculative)
  BY <1>1, InvContinues
<1>3. /\ Sound(emitter) /\ Settled(emitter, r) /\ CurrentFull(emitter, r) = arch[r]
  BY <1>2 DEF Continues
<1>4. WrittenTyped /\ ZeroToken \in Tokens
  BY <1>1, TokensTyped DEF Tokens
<1>5. PICK b \in BOOLEAN : b = PreserveCommitted
  BY PreserveBoolean
<1>6. \A d \in BOOLEAN : LayerCell(emitter, r, d) # NoLocal => HasCells(block)
  BY <1>3 DEF Settled
<1>7. alias \in Aliases /\ read \in Aliases \cup {{}}
  <2>1. block \in Shapes
    BY DEF RegInv, RegTyped
  <2>2. block.aliases \subseteq Aliases /\ block.selfReads \subseteq block.aliases \X block.aliases
    BY <2>1, SegmentAssumption DEF Aliases
  <2> QED BY <2>2
<1>8. v \in Values
  BY <1>4, OverlayTyped DEF WrittenTyped
<1> HIDE DEF v
<1>9. CASE alias = EAX
  <2>1. read # {} => LayerCell(emitter, r, b) = NoLocal
    <3>1. ASSUME HasCells(block), read # {}
          PROVE  FALSE
      <4>1. <<alias, read>> \in block.selfReads
        BY <3>1
      <4>2. <<alias, read>>[1] = alias
        OBVIOUS
      <4>3. alias = AH
        BY <1>9, <3>1, <4>1, <4>2 DEF SafeShape
      <4> QED BY <1>9, <4>3 DEF AH, EAX
    <3> QED BY <1>6, <3>1
  <2>2. Wrote(emitter, WriteFull(emitter, r, read), r, b, Fill(written + 1))
    BY <1>2, <1>3, <1>4, <1>5, <1>7, <2>1, FullWritten
  <2>3. v = Fill(written + 1)
    BY <1>9 DEF v, Overlay, Fill, Segments
  <2>4. emitter' = WriteFull(emitter, r, read)
    BY <1>1, <1>9 DEF EmitWriteAlias
  <2> QED BY <1>1, <1>2, <1>5, <1>8, <2>2, <2>3, <2>4, AssignKeeps
<1>10. CASE alias \in {AL, AX}
  <2>1. b => ~HasCells(block)
    BY <1>1, <1>5, <1>10 DEF SafeShape
  <2>2. b => emitter.cell[r] = NoLocal /\ emitter.pendingCell[r] = NoLocal
    BY <1>6, <2>1 DEF LayerCell
  <2>3. read \in {{}, AL} \/ LayerCell(emitter, r, b) = NoLocal
    <3>1. ASSUME HasCells(block), read # {}
          PROVE  read = AL
      <4>1. <<alias, read>> \in block.selfReads
        BY <3>1
      <4>2. <<alias, read>>[1] = alias /\ <<alias, read>>[2] = read
        OBVIOUS
      <4>3. alias = AH \/ read = AL
        BY <3>1, <4>1, <4>2 DEF SafeShape
      <4> QED BY <1>10, <4>3 DEF AL, AH, AX
    <3> QED BY <1>6, <3>1
  <2>4. Wrote(emitter, WriteLow(emitter, r, alias, read), r, b, v)
    BY <1>2, <1>3, <1>4, <1>5, <1>7, <1>10, <2>2, <2>3, LowWritten DEF v
  <2>5. emitter' = WriteLow(emitter, r, alias, read)
    BY <1>1, <1>10 DEF EmitWriteAlias, AL, AX, EAX
  <2> QED BY <1>1, <1>2, <1>5, <1>8, <2>4, <2>5, AssignKeeps
<1>11. CASE alias = AH
  <2>1. HasCells(block)
    BY <1>11 DEF HasCells
  <2>2. Wrote(emitter, WriteHigh(emitter, r, alias, read), r, b, v)
    BY <1>2, <1>3, <1>4, <1>5, <1>7, <2>1, HighWritten DEF v
  <2>3. emitter' = WriteHigh(emitter, r, alias, read)
    BY <1>1, <1>11 DEF EmitWriteAlias, AH, EAX
  <2> QED BY <1>1, <1>2, <1>5, <1>8, <2>2, <2>3, AssignKeeps
<1> QED BY <1>7, <1>9, <1>10, <1>11 DEF Aliases

\* A conditional write, taken or not.
LEMMA WriteIfKeeps ==
    ASSUME RegInv, UNCHANGED block, NEW r \in Regs, NEW alias, NEW holds \in BOOLEAN,
           WriteIf(r, alias, holds)
    PROVE  RegInv'
<1> DEFINE v == IF holds THEN Overlay(arch[r], Fill(written + 1), alias) ELSE arch[r]
<1>1. /\ phase = "in" /\ written < MaxOps /\ alias \in block.setIf
      /\ emitter' = EmitWriteAliasIf(emitter, r, alias, holds)
      /\ Assign(r, v)
  BY DEF WriteIf, Assign
<1>2. StateTyped /\ Continues(emitter, arch, archBefore, dirty, speculative)
  BY <1>1, InvContinues
<1>3. /\ Sound(emitter) /\ Settled(emitter, r) /\ CurrentFull(emitter, r) = arch[r]
  BY <1>2 DEF Continues
<1>4. WrittenTyped
  BY <1>1, TokensTyped
<1>5. PICK b \in BOOLEAN : b = PreserveCommitted
  BY PreserveBoolean
<1>6. HasCells(block)
  BY <1>1 DEF HasCells
<1>7. v \in Values
  <2>1. arch[r] \in Values /\ written + 1 \in Tokens
    BY <1>4 DEF WrittenTyped
  <2>2. Overlay(arch[r], Fill(written + 1), alias) \in Values
    BY <2>1, OverlayTyped
  <2> QED BY <2>1, <2>2
<1>8. Wrote(emitter, emitter', r, b, v)
  BY <1>1, <1>2, <1>3, <1>4, <1>5, <1>6, ConditionallyWritten
<1> HIDE DEF v
<1> QED BY <1>1, <1>2, <1>5, <1>7, <1>8, AssignKeeps

\* A copy of another register.
LEMMA CopyKeeps ==
    ASSUME RegInv, UNCHANGED block, NEW dst \in Regs, NEW src \in Regs, Copy(dst, src)
    PROVE  RegInv'
<1>1. /\ phase = "in"
      /\ emitter' = EmitCopy(emitter, dst, src)
      /\ Assign(dst, arch[src])
  BY DEF Copy, Assign
<1>2. StateTyped /\ Continues(emitter, arch, archBefore, dirty, speculative)
  BY <1>1, InvContinues
<1>3. /\ Sound(emitter) /\ CurrentFull(emitter, src) = arch[src] /\ arch[src] \in Values
      /\ \A q \in Regs : Settled(emitter, q)
  BY <1>2 DEF Continues
<1>4. PICK b \in BOOLEAN : b = PreserveCommitted
  BY PreserveBoolean
<1>5. PICK g : /\ Kept(emitter, g, src)
               /\ Wrote(g, EmitCopy(emitter, dst, src), dst, b, CurrentFull(emitter, src))
  BY <1>2, <1>3, <1>4, CopyWritten
<1>6. Continues(g, arch, archBefore, dirty, speculative)
  BY <1>2, <1>5, KeptContinues
<1>7. Wrote(g, emitter', dst, PreserveCommitted, arch[src])
  BY <1>1, <1>3, <1>4, <1>5
<1> QED BY <1>1, <1>3, <1>6, <1>7, AssignKeeps

\* A register materialization: its value is committed at once.
LEMMA MaterializeKeeps ==
    ASSUME RegInv, UNCHANGED block, NEW r \in Regs, MaterializeRegister(r)
    PROVE  RegInv'
<1> DEFINE v == Fill(written + 1)
           e == WriteFull(emitter, r, {})
           f == CommitPending(e, {r})
           a == [arch EXCEPT ![r] = v]
           before == [archBefore EXCEPT ![r] = v]
<1>1. /\ phase = "in" /\ written < MaxOps /\ r \notin speculative
      /\ emitter' = f /\ arch' = a /\ archBefore' = before
      /\ written' = written + 1 /\ dirty' = dirty \cup {r}
      /\ UNCHANGED <<memory, speculative, faultsLeft, phase>>
  BY DEF MaterializeRegister
<1>2. StateTyped /\ Continues(emitter, arch, archBefore, dirty, speculative)
  BY <1>1, InvContinues
<1>3. PICK b \in BOOLEAN : b = PreserveCommitted
  BY PreserveBoolean
<1>4. WrittenTyped /\ v \in Values
  BY <1>1, TokensTyped, OverlayTyped DEF WrittenTyped, Fill, Values
<1> HIDE DEF v
<1>5. Wrote(emitter, e, r, b, v)
  <2>1. /\ Sound(emitter) /\ Settled(emitter, r) /\ CurrentFull(emitter, r) = arch[r]
    BY <1>2 DEF Continues
  <2> QED BY <1>2, <1>3, <1>4, <2>1, FullWritten DEF v
<1> HIDE DEF e
<1>6. Continues(e, a, archBefore, dirty, speculative \cup {r})
  BY <1>2, <1>3, <1>4, <1>5, WroteContinues
<1>7. Committed(e, f, {r})
  <2>1. Sound(e) /\ \A q \in Regs : e.pending[q].present => Whole(e, q)
    BY <1>6 DEF Continues, Settled
  <2> QED BY <1>2, <2>1, CommitRight
<1> HIDE DEF f
<1>8. /\ a \in [Regs -> Values] /\ before \in [Regs -> Values]
      /\ a[r] = v /\ before[r] = v
      /\ \A q \in Regs : q # r => a[q] = arch[q] /\ before[q] = archBefore[q]
  BY <1>2, <1>4 DEF Continues
<1> HIDE DEF a, before
<1>9. ASSUME NEW q \in Regs
      PROVE  /\ Settled(f, q)
             /\ CurrentFull(f, q) = a[q]
             /\ faultsLeft > 0 => CommittedFull(f, q) = before[q]
             /\ q \notin dirty \cup {r} => memory[q] = before[q]
             /\ q \in dirty \cup {r} => f.committed[q].present
             /\ q \notin speculative => a[q] = before[q] /\ ~f.pending[q].present
             /\ q \in speculative => f.committed[q].present \/ f.pending[q].present
  <2>1. CASE q = r
    <3>1. /\ ~f.pending[r].present
          /\ CommittedFull(f, r) = v
          /\ f.committed[r].present
      BY <1>6, <1>7, <1>8 DEF Committed, Continues
    <3>2. Settled(f, r) /\ CurrentFull(f, r) = a[r]
      BY <1>6, <1>7 DEF Committed, Continues
    <3> QED BY <1>8, <2>1, <3>1, <3>2
  <2>2. CASE q # r
    <3>1. /\ f.pending[q] = e.pending[q] /\ f.committed[q] = e.committed[q]
          /\ CommittedFull(f, q) = CommittedFull(e, q)
      BY <1>7, <2>2 DEF Committed, SameLayers, SameValues, LayerPrefix
    <3>2. Settled(f, q) /\ CurrentFull(f, q) = a[q]
      BY <1>6, <1>7 DEF Committed, Continues
    <3> QED BY <1>6, <1>8, <2>2, <3>1, <3>2 DEF Continues
  <2> QED BY <2>1, <2>2
<1>10. Continues(f, a, before, dirty \cup {r}, speculative)
  <2>1. Sound(f) /\ dirty \cup {r} \in SUBSET Regs /\ speculative \in SUBSET Regs
    BY <1>2, <1>7 DEF Committed, Continues
  <2> QED BY <1>8, <1>9, <2>1 DEF Continues
<1>11. written' \in 0 .. MaxOps /\ faultsLeft' \in 0 .. block.faults
  BY <1>1, SegmentAssumption DEF RegInv, RegTyped
<1> QED BY <1>1, <1>10, <1>11, ContinuesInv

\* Nothing is pending any more, and what is stored has an entry.
Flushed(f, a, stored) ==
    /\ Sound(f)
    /\ \A q \in Regs :
         /\ Settled(f, q)
         /\ ~f.pending[q].present
         /\ CurrentFull(f, q) = a[q]
         /\ CommittedFull(f, q) = a[q]
         /\ q \in stored => f.committed[q].present

\* commitPendingState at the end of an instruction, or after its last access.
LEMMA CommitFlushes ==
    ASSUME NEW e, StateTyped, NEW a, NEW before, NEW stale, NEW touched,
           Continues(e, a, before, stale, touched), NEW f, f = CommitPending(e, Regs)
    PROVE  Flushed(f, a, stale \cup touched)
<1>1. Sound(e) /\ \A q \in Regs : e.pending[q].present => Whole(e, q)
  BY DEF Continues, Settled
<1>2. Committed(e, f, Regs)
  BY <1>1, CommitRight
<1> QED BY <1>2 DEF Committed, Flushed, Continues

\* A capture whose copies run.
LiveCapture(e, regs) == Capture(e, regs, TRUE)

\* It changes no value, and leaves no cell to store.
LEMMA CaptureContinues ==
    ASSUME NEW e, StateTyped, NEW a, NEW before, NEW stale, NEW touched,
           Continues(e, a, before, stale, touched),
           NEW f, f = LiveCapture(e, stale)
    PROVE  /\ Continues(f, a, before, stale, touched)
           /\ \A q \in stale : f.cell[q] = NoLocal
           /\ \A q \in Regs : SameValues(e, f, q)
<1>1. PICK live \in BOOLEAN : live = TRUE
  OBVIOUS
<1>2. Sound(e) /\ stale \in SUBSET Regs /\ ZeroToken \in Tokens
  BY DEF Continues, Tokens
<1>3. f = Capture(e, stale, live)
  BY <1>1 DEF LiveCapture
<1>4. Captured(e, f, stale, live)
  BY <1>2, <1>3, CaptureRight
<1> QED BY <1>1, <1>4 DEF Captured, Continues, SameValues

\* A memory access that does not fault.
LEMMA AccessKeeps ==
    ASSUME RegInv, UNCHANGED block, AccessMemory
    PROVE  RegInv'
<1> DEFINE e == Capture(emitter, dirty, TRUE)
           f == CommitPending(e, Regs)
<1>1. /\ phase = "in" /\ faultsLeft > 0 /\ faultsLeft' = faultsLeft - 1
      /\ emitter' = IF faultsLeft = 1 THEN f ELSE e
      /\ UNCHANGED <<memory, arch, archBefore, dirty, speculative, phase, written>>
  BY DEF AccessMemory
<1>2. StateTyped /\ Continues(emitter, arch, archBefore, dirty, speculative)
  BY <1>1, InvContinues
<1>3. Continues(e, arch, archBefore, dirty, speculative)
  <2>1. e = LiveCapture(emitter, dirty)
    BY DEF LiveCapture
  <2> HIDE DEF e
  <2> QED BY <1>2, <2>1, CaptureContinues
<1> HIDE DEF e
<1>4. faultsLeft \in 1 .. block.faults /\ block.faults \in Nat
  BY <1>1, SegmentAssumption DEF RegInv, RegTyped
<1>5. CASE faultsLeft # 1
  <2>1. Continues(emitter', arch', archBefore', dirty', speculative')
    BY <1>1, <1>3, <1>5
  <2>2. written' \in 0 .. MaxOps /\ faultsLeft' \in 0 .. block.faults /\ faultsLeft' > 0
    BY <1>1, <1>4, <1>5 DEF RegInv, RegTyped
  <2> QED BY <1>1, <2>1, <2>2, ContinuesInv
<1>6. CASE faultsLeft = 1
  <2>1. Flushed(f, arch, dirty \cup speculative)
    BY <1>2, <1>3, CommitFlushes
  <2>2. emitter' = f /\ faultsLeft' = 0
    BY <1>1, <1>6
  <2> HIDE DEF f
  <2>3. ASSUME NEW q \in Regs
        PROVE  CurrentOver(f, q, memory) = arch[q]
    BY <1>2, <2>1, OverValues DEF Flushed
  <2>4. RegTyped'
    BY <1>1, <1>4, <2>1, <2>2 DEF RegInv, RegTyped, Flushed
  <2>5. StoresReady' /\ PhaseInv'
    BY <1>1, <2>1, <2>2 DEF RegInv, RegTyped, StoresReady, PhaseInv, Flushed
  <2>6. LayersHold'
    BY <1>1, <1>2, <2>2, <2>3 DEF LayersHold, Continues
  <2>7. PendingWhole'
    BY <1>1, <2>1, <2>2 DEF PendingWhole, Flushed, Settled
  <2> QED BY <2>4, <2>5, <2>6, <2>7 DEF RegInv
<1> QED BY <1>5, <1>6

\* The next instruction begins from what this one computed.
LEMMA NextInstructionKeeps ==
    ASSUME RegInv, UNCHANGED block, NextInstruction
    PROVE  RegInv'
<1> DEFINE f == CommitPending(emitter, Regs)
<1>1. /\ phase = "in" /\ faultsLeft = 0
      /\ emitter' = f /\ dirty' = dirty \cup speculative /\ speculative' = {}
      /\ archBefore' = arch /\ phase' = "between"
      /\ UNCHANGED <<memory, arch, faultsLeft, written>>
  BY DEF NextInstruction
<1>2. StateTyped /\ Continues(emitter, arch, archBefore, dirty, speculative)
  BY <1>1, InvContinues
<1>3. Flushed(f, arch, dirty \cup speculative)
  BY <1>2, CommitFlushes
<1> HIDE DEF f
<1>4. ASSUME NEW q \in Regs
      PROVE  CurrentOver(f, q, memory) = arch[q]
  BY <1>2, <1>3, OverValues DEF Flushed
<1>5. RegTyped'
  BY <1>1, <1>3 DEF RegInv, RegTyped, Flushed
<1>6. StoresReady' /\ PhaseInv'
  BY <1>1, <1>3 DEF RegInv, RegTyped, StoresReady, PhaseInv, Flushed
<1>7. LayersHold'
  BY <1>1, <1>2, <1>4 DEF LayersHold, Continues
<1>8. PendingWhole'
  BY <1>1, <1>3 DEF PendingWhole, Flushed, Settled
<1> QED BY <1>5, <1>6, <1>7, <1>8 DEF RegInv

\* An exit whose captured registers are prefixes stores their values.
LEMMA ExitKeeps ==
    ASSUME RegInv, UNCHANGED block, NEW e, Sound(e), NEW regs \in SUBSET Regs,
           \A q \in regs : e.cell[q] = NoLocal,
           \A q \in dirty : e.committed[q].present,
           NEW architecture \in [Regs -> Values], Exit(e, regs, architecture)
    PROVE  /\ RegInv'
           /\ (\A q \in Regs : (IF q \in regs THEN CommittedFull(e, q) ELSE memory[q])
                                 = architecture[q])
                => memory' = arch'
<1>1. /\ phase' = "done" /\ emitter' = e /\ memory' = Stored(e, regs)
      /\ arch' = architecture /\ archBefore' = architecture /\ faultsLeft' = 0
      /\ UNCHANGED <<dirty, speculative, written>>
  BY DEF Exit
<1>2. StateTyped
  BY DEF RegInv, RegTyped, StateTyped
<1>3. /\ memory' \in [Regs -> Values]
      /\ \A q \in Regs : memory'[q] = IF q \in regs THEN CommittedFull(e, q) ELSE memory[q]
  BY <1>1, <1>2, StoredRight
<1>4. block.faults \in Nat
  BY SegmentAssumption DEF RegInv, RegTyped
<1>5. RegTyped'
  BY <1>1, <1>3, <1>4 DEF RegInv, RegTyped
<1>6. StoresReady' /\ LayersHold' /\ PendingWhole' /\ PhaseInv'
  BY <1>1 DEF StoresReady, LayersHold, PendingWhole, PhaseInv
<1>7. ASSUME \A q \in Regs : (IF q \in regs THEN CommittedFull(e, q) ELSE memory[q])
                               = architecture[q]
      PROVE  memory' = architecture
  BY <1>3, <1>7
<1> QED BY <1>1, <1>5, <1>6, <1>7 DEF RegInv

\* The exit of a fault stores the registers of the instruction's start.
LEMMA FaultKeeps ==
    ASSUME RegInv, UNCHANGED block, FaultInMemory
    PROVE  RegInv' /\ memory' = arch'
<1> DEFINE e == Capture(emitter, dirty, TRUE)
<1>1. phase = "in" /\ faultsLeft > 0 /\ Exit(e, dirty, archBefore)
  BY DEF FaultInMemory
<1>2. StateTyped /\ Continues(emitter, arch, archBefore, dirty, speculative)
  BY <1>1, InvContinues
<1>3. /\ Continues(e, arch, archBefore, dirty, speculative)
      /\ \A q \in dirty : e.cell[q] = NoLocal
  <2>1. e = LiveCapture(emitter, dirty)
    BY DEF LiveCapture
  <2> HIDE DEF e
  <2> QED BY <1>2, <2>1, CaptureContinues
<1> HIDE DEF e
<1>4. \A q \in Regs : (IF q \in dirty THEN CommittedFull(e, q) ELSE memory[q]) = archBefore[q]
  BY <1>1, <1>3 DEF Continues
<1>5. /\ Sound(e) /\ dirty \in SUBSET Regs /\ archBefore \in [Regs -> Values]
      /\ \A q \in dirty : e.committed[q].present
  BY <1>3 DEF Continues
<1> QED BY <1>1, <1>3, <1>4, <1>5, ExitKeeps

\* A capture after the instruction's commit, on a path that runs its copies
\* or not.
LEMMA CaptureFlushed ==
    ASSUME NEW f, StateTyped, NEW a, NEW regs \in SUBSET Regs, Flushed(f, a, regs),
           NEW live \in BOOLEAN, NEW e, e = Capture(f, regs, live),
           live \/ \A q \in regs : f.cell[q] = NoLocal
    PROVE  /\ Flushed(e, a, regs)
           /\ \A q \in regs : e.cell[q] = NoLocal
<1>1. Sound(f) /\ ZeroToken \in Tokens
  BY DEF Flushed, Tokens
<1>2. Captured(f, e, regs, live)
  BY <1>1, CaptureRight
<1>3. \A q \in Regs : SameValues(f, e, q)
  BY <1>2 DEF Captured, Frozen
<1> QED BY <1>2, <1>3 DEF Captured, Flushed, SameValues

\* Nothing is left to commit.
LEMMA CommitAgain ==
    ASSUME NEW f, StateTyped, NEW a, NEW regs \in SUBSET Regs, Flushed(f, a, regs),
           NEW e, e = CommitPending(f, Regs)
    PROVE  Flushed(e, a, regs)
<1>1. Sound(f) /\ \A q \in Regs : f.pending[q].present => Whole(f, q)
  BY DEF Flushed
<1>2. Committed(f, e, Regs)
  BY <1>1, CommitRight
<1> QED BY <1>2 DEF Committed, Flushed

\* Where every value is flushed and captured, an exit is architectural.
LEMMA FlushedExits ==
    ASSUME RegInv, UNCHANGED block, phase = "in", NEW e, Flushed(e, arch, PostInstructionRegs),
           \A q \in PostInstructionRegs : e.cell[q] = NoLocal,
           Exit(e, PostInstructionRegs, arch)
    PROVE  RegInv' /\ memory' = arch'
<1>1. StateTyped /\ Continues(emitter, arch, archBefore, dirty, speculative)
  BY InvContinues
<1>2. /\ PostInstructionRegs \in SUBSET Regs /\ arch \in [Regs -> Values]
      /\ Sound(e) /\ \A q \in dirty : e.committed[q].present
  BY <1>1 DEF PostInstructionRegs, Continues, Flushed
<1>3. ASSUME NEW q \in Regs
      PROVE  (IF q \in PostInstructionRegs THEN CommittedFull(e, q) ELSE memory[q]) = arch[q]
  <2>1. CASE q \in PostInstructionRegs
    BY <2>1 DEF Flushed
  <2>2. CASE q \notin PostInstructionRegs
    BY <1>1, <2>2 DEF PostInstructionRegs, Continues
  <2> QED BY <2>1, <2>2
<1> QED BY <1>2, <1>3, ExitKeeps

\* The exit at the end of a block.
LEMMA ExitBlockKeeps ==
    ASSUME RegInv, UNCHANGED block, ExitBlock
    PROVE  RegInv' /\ memory' = arch'
<1> DEFINE f == CommitPending(emitter, Regs)
           e == Capture(f, PostInstructionRegs, TRUE)
<1>1. phase = "in" /\ Exit(e, PostInstructionRegs, arch)
  BY DEF ExitBlock
<1>2. StateTyped /\ Continues(emitter, arch, archBefore, dirty, speculative)
  BY <1>1, InvContinues
<1>3. Flushed(f, arch, PostInstructionRegs) /\ PostInstructionRegs \in SUBSET Regs
  BY <1>2, CommitFlushes DEF PostInstructionRegs, Continues
<1> HIDE DEF f
<1>4. PICK live \in BOOLEAN : live = TRUE /\ live
  OBVIOUS
<1>5. e = Capture(f, PostInstructionRegs, live)
  BY <1>4
<1> HIDE DEF e
<1>6. Flushed(e, arch, PostInstructionRegs) /\ \A q \in PostInstructionRegs : e.cell[q] = NoLocal
  <2>1. live \/ \A q \in PostInstructionRegs : f.cell[q] = NoLocal
    BY <1>4
  <2> QED BY <1>2, <1>3, <1>5, <2>1, CaptureFlushed
<1> QED BY <1>1, <1>6, FlushedExits

\* Either exit of a conditional jump, in a block without cells.
LEMMA ConditionalExitStores ==
    ASSUME RegInv, UNCHANGED block, BranchSafe(block), NEW taken \in BOOLEAN,
           ConditionalExit(taken)
    PROVE  RegInv' /\ memory' = arch'
<1> DEFINE f == CommitPending(emitter, Regs)
           inArm == Capture(f, PostInstructionRegs, taken)
           again == CommitPending(inArm, Regs)
           afterArm == Capture(again, PostInstructionRegs, TRUE)
           e == IF taken THEN inArm ELSE afterArm
<1>1. block.branches /\ phase = "in" /\ Exit(e, PostInstructionRegs, arch)
  BY DEF ConditionalExit
<1>2. StateTyped /\ Continues(emitter, arch, archBefore, dirty, speculative)
  BY <1>1, InvContinues
<1>3. Flushed(f, arch, PostInstructionRegs) /\ PostInstructionRegs \in SUBSET Regs
  BY <1>2, CommitFlushes DEF PostInstructionRegs, Continues
<1>4. \A q \in PostInstructionRegs : f.cell[q] = NoLocal
  <2>1. ~HasCells(block)
    BY <1>1 DEF BranchSafe
  <2> QED BY <1>3, <2>1 DEF Flushed, Settled, LayerCell
<1> HIDE DEF f
<1>5. Flushed(inArm, arch, PostInstructionRegs) /\ \A q \in PostInstructionRegs : inArm.cell[q] = NoLocal
  BY <1>2, <1>3, <1>4, CaptureFlushed
<1> HIDE DEF inArm
<1>6. Flushed(again, arch, PostInstructionRegs)
  BY <1>2, <1>3, <1>5, CommitAgain
<1> HIDE DEF again
<1>7. PICK live \in BOOLEAN : live = TRUE /\ live
  OBVIOUS
<1>8. afterArm = Capture(again, PostInstructionRegs, live)
  BY <1>7
<1> HIDE DEF afterArm
<1>9. Flushed(afterArm, arch, PostInstructionRegs) /\ \A q \in PostInstructionRegs : afterArm.cell[q] = NoLocal
  <2>1. live \/ \A q \in PostInstructionRegs : again.cell[q] = NoLocal
    BY <1>7
  <2> QED BY <1>2, <1>3, <1>6, <1>8, <2>1, CaptureFlushed
<1>10. Flushed(e, arch, PostInstructionRegs) /\ \A q \in PostInstructionRegs : e.cell[q] = NoLocal
  BY <1>5, <1>9
<1> HIDE DEF e
<1> QED BY <1>1, <1>10, FlushedExits

\* Either exit of a conditional jump, in any block.
LEMMA ConditionalExitKeeps ==
    ASSUME RegInv, UNCHANGED block, NEW taken \in BOOLEAN, ConditionalExit(taken)
    PROVE  RegInv'
<1> DEFINE f == CommitPending(emitter, Regs)
           inArm == Capture(f, PostInstructionRegs, taken)
           again == CommitPending(inArm, Regs)
           afterArm == Capture(again, PostInstructionRegs, TRUE)
           e == IF taken THEN inArm ELSE afterArm
<1>1. phase = "in" /\ Exit(e, PostInstructionRegs, arch)
  BY DEF ConditionalExit
<1>2. StateTyped /\ Continues(emitter, arch, archBefore, dirty, speculative)
  BY <1>1, InvContinues
<1>3. Flushed(f, arch, PostInstructionRegs) /\ PostInstructionRegs \in SUBSET Regs /\ ZeroToken \in Tokens
  BY <1>2, CommitFlushes DEF PostInstructionRegs, Continues, Tokens
<1> HIDE DEF f
<1>4. Captured(f, inArm, PostInstructionRegs, taken)
  BY <1>2, <1>3, CaptureRight DEF Flushed
<1> HIDE DEF inArm
<1>5. /\ Sound(inArm)
      /\ \A q \in Regs : ~inArm.pending[q].present
      /\ \A q \in PostInstructionRegs : inArm.cell[q] = NoLocal /\ inArm.committed[q].present
  BY <1>3, <1>4 DEF Captured, Flushed
<1>6. Committed(inArm, again, Regs)
  BY <1>2, <1>5, CommitRight
<1> HIDE DEF again
<1>7. PICK live \in BOOLEAN : live = TRUE /\ live
  OBVIOUS
<1>8. afterArm = Capture(again, PostInstructionRegs, live)
  BY <1>7
<1> HIDE DEF afterArm
<1>9. Captured(again, afterArm, PostInstructionRegs, live)
  BY <1>2, <1>3, <1>6, <1>8, CaptureRight DEF Committed
<1>10. /\ Sound(afterArm)
       /\ \A q \in PostInstructionRegs : afterArm.cell[q] = NoLocal /\ afterArm.committed[q].present
  BY <1>3, <1>5, <1>6, <1>9 DEF Captured, Committed
<1>11. /\ Sound(e)
       /\ \A q \in PostInstructionRegs : e.cell[q] = NoLocal /\ e.committed[q].present
  BY <1>5, <1>10
<1>12. dirty \subseteq PostInstructionRegs /\ arch \in [Regs -> Values]
  BY <1>2 DEF PostInstructionRegs, Continues
<1> HIDE DEF e
<1> QED BY <1>1, <1>3, <1>11, <1>12, ExitKeeps

-----------------------------------------------------------------------------
(* The invariant and what follows from it.                                 *)

\* Every step of the emission keeps the invariant; the exits of blocks that
\* do not branch out of a cell store the registers of the program.
LEMMA NextKeeps ==
    ASSUME RegInv, SafeShape(block), Next
    PROVE  /\ RegInv'
           /\ BranchSafe(block) /\ ExitStoresArchitectural => ExitStoresArchitectural'
<1>1. UNCHANGED block /\ block \in Shapes
  BY DEF Next, RegInv, RegTyped
<1>2. block.aliases \subseteq Aliases /\ block.selfReads \subseteq block.aliases \X block.aliases
  BY <1>1, SegmentAssumption DEF Aliases
<1>3. ASSUME NEW faults \in 0 .. block.faults, BeginInstruction(faults)
      PROVE  RegInv' /\ phase' # "done"
  BY <1>1, <1>3, BeginKeeps DEF BeginInstruction
<1>4. ASSUME NEW r \in Regs, NEW alias \in block.aliases, Read(r, alias)
      PROVE  RegInv' /\ phase' # "done"
  BY <1>1, <1>2, <1>4, ReadKeeps DEF Read
<1>5. ASSUME NEW r \in Regs, NEW alias \in block.aliases, Write(r, alias, {})
      PROVE  RegInv' /\ phase' # "done"
  BY <1>1, <1>5, WriteKeeps DEF Write, Assign
<1>6. ASSUME NEW r \in Regs, NEW self \in block.selfReads, Write(r, self[1], self[2])
      PROVE  RegInv' /\ phase' # "done"
  <2>1. self[1] \in block.aliases /\ <<self[1], self[2]>> \in block.selfReads
    BY <1>2
  <2> QED BY <1>1, <1>6, <2>1, WriteKeeps DEF Write, Assign
<1>7. ASSUME NEW r \in Regs, NEW alias \in block.aliases, NEW holds \in BOOLEAN,
             WriteIf(r, alias, holds)
      PROVE  RegInv' /\ phase' # "done"
  BY <1>1, <1>7, WriteIfKeeps DEF WriteIf, Assign
<1>8. ASSUME NEW dst \in Regs, NEW src \in Regs, Copy(dst, src)
      PROVE  RegInv' /\ phase' # "done"
  BY <1>1, <1>8, CopyKeeps DEF Copy, Assign
<1>9. ASSUME NEW r \in Regs, MaterializeRegister(r)
      PROVE  RegInv' /\ phase' # "done"
  BY <1>1, <1>9, MaterializeKeeps DEF MaterializeRegister
<1>10. ASSUME AccessMemory
       PROVE  RegInv' /\ phase' # "done"
  BY <1>1, <1>10, AccessKeeps DEF AccessMemory
<1>11. ASSUME FaultInMemory
       PROVE  RegInv' /\ memory' = arch'
  BY <1>1, <1>11, FaultKeeps
<1>12. ASSUME NextInstruction
       PROVE  RegInv' /\ phase' # "done"
  BY <1>1, <1>12, NextInstructionKeeps DEF NextInstruction
<1>13. ASSUME ExitBlock
       PROVE  RegInv' /\ memory' = arch'
  BY <1>1, <1>13, ExitBlockKeeps
<1>14. ASSUME NEW taken \in BOOLEAN, ConditionalExit(taken)
       PROVE  RegInv' /\ (BranchSafe(block) => memory' = arch')
  BY <1>1, <1>14, ConditionalExitKeeps, ConditionalExitStores
<1> QED BY <1>3, <1>4, <1>5, <1>6, <1>7, <1>8, <1>9, <1>10, <1>11, <1>12, <1>13, <1>14
        DEF Next, ExitStoresArchitectural

\* Which exits store the registers of the program.
ExitInv == BranchSafe(block) => ExitStoresArchitectural

\* Every block of a safe shape keeps the invariant, whatever its instructions.
THEOREM RegisterInvariance == Spec => [](SafeShape(block) => RegInv /\ ExitInv)
<1>1. Init => RegInv /\ ExitInv
  BY InitRight DEF Init, ExitInv, ExitStoresArchitectural
<1>2. (SafeShape(block) => RegInv /\ ExitInv) /\ [Next]_vars =>
        (SafeShape(block) => RegInv /\ ExitInv)'
  <2>1. SUFFICES ASSUME SafeShape(block) => RegInv /\ ExitInv, [Next]_vars, SafeShape(block)'
                 PROVE  RegInv' /\ ExitInv'
    OBVIOUS
  <2>2. block' = block
    BY <2>1 DEF Next, vars
  <2>3. SafeShape(block) /\ RegInv /\ ExitInv
    BY <2>1, <2>2
  <2>4. CASE Next
    BY <2>2, <2>3, <2>4, NextKeeps DEF ExitInv
  <2>5. CASE UNCHANGED vars
    BY <2>3, <2>5 DEF vars, RegInv, RegTyped, StoresReady, LayersHold, PendingWhole, PhaseInv,
                      ExitInv, ExitStoresArchitectural
  <2> QED BY <2>1, <2>4, <2>5
<1> QED BY <1>1, <1>2, PTL DEF Spec

\* The compiler's record of a layer is one of those the type invariant lists.
LEMMA LayerListed ==
    ASSUME NEW e, NEW r \in Regs, NEW p, NEW c, SoundLayer(e, r, p, c)
    PROVE  p \in Prefixes(e) /\ c \in Locals(e) \cup {NoLocal}
<1>1. p = [present |-> p.present, covers |-> p.covers, local |-> p.local]
      /\ p.present \in BOOLEAN /\ p.covers \in Covers
  BY DEF SoundLayer, PrefixRecords
<1>2. CASE p.covers = {}
  <2>1. p.local = NoLocal /\ (p.present = TRUE \/ p.present = FALSE)
    BY <1>1, <1>2 DEF SoundLayer
  <2>2. p = Absent \/ p = Unknown
    BY <1>1, <1>2, <2>1 DEF Absent, Unknown
  <2> QED BY <2>2, LocalNamed DEF Prefixes, SoundLayer
<1>3. CASE p.covers # {}
  <2>1. p.local \in Locals(e) /\ p.covers \in {AL, AX, EAX} /\ p.present = TRUE
    BY <1>1, <1>3 DEF SoundLayer, Covers
  <2>2. p = Prefix(p.local, p.covers)
    BY <1>1, <2>1 DEF Prefix
  <2>3. p \in Prefixes(e)
    BY <2>1, <2>2 DEF Prefixes
  <2> QED BY <2>3, LocalNamed DEF SoundLayer
<1> QED BY <1>2, <1>3

\* Every prefix and cell names a local that exists; values are tokens.
THEOREM RegisterTyped == Spec => [](SafeShape(block) => TypeOK)
<1>1. RegInv => TypeOK
  <2>1. SUFFICES ASSUME RegInv PROVE TypeOK
    OBVIOUS
  <2>2. Sound(emitter) /\ emitter \in Emitters
    BY <2>1 DEF RegInv, RegTyped, Sound
  <2>3. ASSUME NEW r \in Regs
        PROVE  /\ emitter.committed[r] \in Prefixes(emitter)
               /\ emitter.pending[r] \in Prefixes(emitter)
               /\ emitter.cell[r] \in Locals(emitter) \cup {NoLocal}
               /\ emitter.pendingCell[r] \in Locals(emitter) \cup {NoLocal}
    BY <2>2, LayersSound, LayerListed
  <2>4. ASSUME NEW r \in Regs, NEW n \in 1 .. Len(emitter.locals[r])
        PROVE  emitter.locals[r][n] \in Values
    <3>1. emitter.locals[r] \in Seq(Values)
      BY <2>2 DEF Emitters
    <3> QED BY <3>1
  <2> QED BY <2>1, <2>3, <2>4 DEF RegInv, RegTyped, TypeOK
<1> QED BY <1>1, RegisterInvariance, PTL

\* Whatever was written, conditionally or not, copied, materialised or kept
\* in memory: a read of an alias yields what the program last wrote there.
THEOREM ReadsRight == Spec => [](SafeShape(block) => ReadsArchitectural)
<1>1. RegInv => ReadsArchitectural
  <2>1. SUFFICES ASSUME RegInv, phase = "in", NEW r \in Regs, NEW alias \in Aliases
                 PROVE  Agree(ReadAlias(emitter, r, alias).value, arch[r], alias)
    BY DEF ReadsArchitectural, Aliases
  <2>2. StateTyped /\ Sound(emitter) /\ CurrentFull(emitter, r) = arch[r]
    BY <2>1, InvContinues DEF Continues
  <2> QED BY <2>2, ReadRight
<1> QED BY <1>1, RegisterInvariance, PTL

\* As long as an instruction can fault, the committed layers put every
\* register back to where the instruction found it.
THEOREM FaultsRestore == Spec => [](SafeShape(block) => FaultRestoresInstructionStart)
<1>1. RegInv => FaultRestoresInstructionStart
  <2> DEFINE e == Capture(emitter, dirty, TRUE)
  <2>1. SUFFICES ASSUME RegInv, phase = "in", faultsLeft > 0
                 PROVE  Stored(e, dirty) = archBefore
    BY DEF FaultRestoresInstructionStart
  <2>2. StateTyped /\ Continues(emitter, arch, archBefore, dirty, speculative)
    BY <2>1, InvContinues
  <2>3. e = LiveCapture(emitter, dirty)
    BY DEF LiveCapture
  <2> HIDE DEF e
  <2>4. Continues(e, arch, archBefore, dirty, speculative) /\ \A q \in dirty : e.cell[q] = NoLocal
    BY <2>2, <2>3, CaptureContinues
  <2>5. Sound(e) /\ dirty \in SUBSET Regs /\ archBefore \in [Regs -> Values]
    BY <2>4 DEF Continues
  <2>6. /\ Stored(e, dirty) \in [Regs -> Values]
        /\ \A q \in Regs : Stored(e, dirty)[q] = IF q \in dirty THEN CommittedFull(e, q) ELSE memory[q]
    BY <2>2, <2>4, <2>5, StoredRight
  <2>7. \A q \in Regs : Stored(e, dirty)[q] = archBefore[q]
    BY <2>1, <2>4, <2>6 DEF Continues
  <2> QED BY <2>5, <2>6, <2>7
<1> QED BY <1>1, RegisterInvariance, PTL

\* An exit leaves the registers of the program in the CPU state; for the two
\* exits of a conditional jump, if no register can be in a cell there.
THEOREM ExitsStore ==
    Spec => [](SafeShape(block) /\ BranchSafe(block) => ExitStoresArchitectural)
<1>1. (SafeShape(block) => RegInv /\ ExitInv) =>
        (SafeShape(block) /\ BranchSafe(block) => ExitStoresArchitectural)
  BY DEF ExitInv
<1> QED BY <1>1, RegisterInvariance, PTL

\* Nothing is left pending at the end of an instruction, and what an exit
\* stores has a committed state: the assertions of the compiler hold.
THEOREM EmissionSafe == Spec => [](SafeShape(block) => EmissionNeverThrows)
<1>1. RegInv => EmissionNeverThrows
  <2>1. SUFFICES ASSUME RegInv PROVE EmissionNeverThrows
    OBVIOUS
  <2>2. ASSUME phase = "between", NEW r \in Regs
        PROVE  ~emitter.pending[r].present /\ emitter.pendingCell[r] = NoLocal
    <3>1. ~emitter.pending[r].present
      BY <2>1, <2>2 DEF RegInv, PendingWhole, PhaseInv
    <3> QED BY <2>1, <3>1, LayersSound DEF RegInv, RegTyped, SoundLayer
  <2>3. \A r \in dirty : emitter.committed[r].present
    BY <2>1 DEF RegInv, StoresReady
  <2> QED BY <2>2, <2>3 DEF EmissionNeverThrows
<1> QED BY <1>1, RegisterInvariance, PTL

\* A local that is updated in place is named by one layer of one register.
THEOREM CellsPrivate == Spec => [](SafeShape(block) => CellsArePrivate)
<1>1. RegInv => CellsArePrivate
  <2>1. SUFFICES ASSUME RegInv, NEW r \in Regs, NEW q \in Regs,
                        NEW cell \in {emitter.cell[r], emitter.pendingCell[r]} \ {NoLocal}
                 PROVE  /\ emitter.committed[q].local # cell
                        /\ emitter.pending[q].local # cell
                        /\ r # q => cell \notin {emitter.cell[q], emitter.pendingCell[q]}
    BY DEF CellsArePrivate
  <2>2. PICK b \in BOOLEAN : cell = LayerCell(emitter, r, b) /\ cell # NoLocal
    BY <2>1 DEF LayerCell
  <2>3. \A d \in BOOLEAN :
          /\ LayerPrefix(emitter, q, d).local # cell
          /\ q # r => LayerCell(emitter, q, d) # cell
    BY <2>1, <2>2 DEF RegInv, RegTyped, Sound, PrivateCell
  <2> QED BY <2>3 DEF LayerPrefix, LayerCell
<1> QED BY <1>1, RegisterInvariance, PTL
=============================================================================
