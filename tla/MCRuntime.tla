----------------------------- MODULE MCRuntime -----------------------------
(***************************************************************************)
(* Small guest programs for Runtime.  Addresses are 1 .. 5; 5 is outside   *)
(* the code map, which compiled blocks respect and the interpreter does    *)
(* not.                                                                    *)
(***************************************************************************)
EXTENDS Runtime

MCAddress == 1 .. 5
MCLoaded == 1 .. 4

I(op, next, target) == [op |-> op, next |-> next, target |-> target]

\* A block cut at MaxBlock, a loop linked to it and a jump to anywhere.
Cut == <<I("plain", 2, 2), I("memory", 3, 3), I("branch", 4, 1),
         I("dynamic", 5, 5), I("unreadable", 5, 5)>>

\* A block cut by an unsupported instruction.
Unsupported == <<I("jump", 2, 3), I("unsupported", 3, 3), I("plain", 2, 2),
                 I("trap", 1, 1), I("plain", 4, 4)>>

\* A loop closed by a computed jump only.
Returns == <<I("plain", 2, 2), I("branch", 4, 3), I("dynamic", 4, 4),
             I("trap", 1, 1), I("unreadable", 5, 5)>>

\* The same entries, without a loop: a decode fault within a block (3).
Faulty == <<I("jump", 2, 4), I("unsupported", 3, 3), I("plain", 5, 5),
            I("memory", 2, 2), I("unreadable", 5, 5)>>

\* A loop that stores to code.
SelfModifying == <<I("store", 2, 2), I("branch", 3, 1), I("trap", 1, 1),
                   I("unreadable", 5, 5), I("unreadable", 5, 5)>>

\* What it may become.
Modified == <<I("call", 2, 2), I("callDynamic", 3, 3), I("trap", 1, 1),
              I("unreadable", 5, 5), I("unreadable", 5, 5)>>

\* A runtime in interpreter mode.
Interpreter ==
    [compiled |-> FALSE, clears |-> FALSE, counts |-> {0, 1, Wrap - 1},
     images |-> {Cut, Unsupported, SelfModifying}, limits |-> {0, 2, 3}]

\* Compiled blocks with a careful embedder.
Compiling ==
    [compiled |-> TRUE, clears |-> TRUE, counts |-> {0, Wrap - 1},
     images |-> {Cut, Unsupported, Faulty}, limits |-> {0, 2}]

\* ... and with one that lets the program rewrite its code.
Careless ==
    [compiled |-> TRUE, clears |-> FALSE, counts |-> {0, 1},
     images |-> {SelfModifying, Modified}, limits |-> {1}]

\* Compiled blocks whose links form no cycle.
Acyclic ==
    [Compiling EXCEPT !.counts = {0, 1}, !.images = {Returns, Faulty}]

SafetySetups == {Interpreter, Compiling, Careless}
ReturningSetups == {Interpreter, Acyclic}

\* What was compiled for a handle that nothing refers to any more has no
\* influence: states that differ only in that are the same.
LiveState ==
    <<setup, image, state, phase, host, engine, result, ran,
      blocks, dependents, answer, written,
      [h \in Handle |->
          IF h \in Cache!Free THEN None ELSE <<body[h], targets[h], slot[h]>>]>>
=============================================================================
