-------------------------- MODULE MCRegisterState --------------------------
(***************************************************************************)
(* Small instances of RegisterState for TLC.                               *)
(***************************************************************************)
EXTENDS RegisterState, TLC

\* The registers are interchangeable: no definition tells them apart.
RegSymmetry == Permutations(Regs)

\* A block with high-byte writes: its registers get cells.  Of the values that
\* read the register they are written to, it has those that are safe.
WithCells ==
    [aliases     |-> {AL, AH, AX, EAX},
     selfReads   |-> {<<AH, AL>>, <<AH, AH>>, <<AL, AL>>, <<AX, AL>>},
     earlyWrites |-> {EAX, AH},
     setIf       |-> {AX, EAX},
     branches    |-> FALSE,
     faults      |-> 1]

\* A block without: every write may read its own register.
WithoutCells ==
    LET aliases == {AL, AX, EAX}
    IN  [aliases     |-> aliases,
         selfReads   |-> aliases \X aliases,
         earlyWrites |-> aliases,
         setIf       |-> {},
         branches    |-> TRUE,
         faults      |-> 1]

SafeShapes == {WithCells, WithoutCells}

\* mov ah, dl; jz x
BranchShapes ==
    {[WithCells EXCEPT !.selfReads = {}, !.earlyWrites = {}, !.branches = TRUE,
                       !.faults = 0]}

\* The theorems speak of these blocks; of the branches they say nothing about
\* what the exits store.
ASSUME ShapeAssumption ==
    /\ \A s \in SafeShapes : SafeShape(s) /\ BranchSafe(s)
    /\ \A s \in BranchShapes : SafeShape(s) /\ ~BranchSafe(s)
=============================================================================
