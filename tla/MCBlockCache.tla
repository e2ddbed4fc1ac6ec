---------------------------- MODULE MCBlockCache ----------------------------
(***************************************************************************)
(* A small instance of BlockCache: three entries that jump to one another, *)
(* a loop and a conditional jump among them, and every way in which a      *)
(* compile can end.                                                        *)
(***************************************************************************)
EXTENDS BlockCache, TLC

CONSTANTS a, b, c

MCEip == {a, b, c}

MCCode == {"branch", "jump", "loop", "hub", "empty", "fault"}

\* The contents of a and of b change, those of c stay.
MCImages ==
    LET codeAt == (a :> {"branch", "jump"}) @@ (b :> {"loop", "empty", "fault"})
                      @@ (c :> {"hub"})
    IN  {f \in [MCEip -> MCCode] : \A e \in MCEip : f[e] \in codeAt[e]}

MCDecode ==
    [x \in MCCode |->
        CASE x = "branch" -> [kind |-> "block", targets |-> {b, c}]
          [] x = "jump"   -> [kind |-> "block", targets |-> {b}]
          [] x = "loop"   -> [kind |-> "block", targets |-> {a}]
          [] x = "hub"    -> [kind |-> "block", targets |-> {a, c}]
          [] OTHER        -> [kind |-> x, targets |-> {}]]

\* Handles are interchangeable: no definition names one.
Symmetry == Permutations(Handle)
=============================================================================
