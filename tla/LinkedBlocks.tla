---------------------------- MODULE LinkedBlocks ----------------------------
(***************************************************************************)
(* What the compiled block cache promises, without handles, tables or      *)
(* reverse indexes: a map from entry EIP to the code compiled for it, and  *)
(* for every static jump of a cached block the place where the jump lands. *)
(* The promise is that every step leaves the landing places equal to       *)
(* Landing(cached): a jump to a cached entry runs the block cached now, a  *)
(* jump to any other entry returns to the host.                            *)
(* BlockCache implements this specification (BlockCache!Promise).          *)
(***************************************************************************)
CONSTANTS
    Eip,      \* the block entry points of interest
    Code,     \* the contents guest memory can hold at an entry
    Images,   \* the guest memories that occur, each seen from every entry
    Decode,   \* what decoding and compiling a content gives
    None,     \* no value
    Stub      \* the landing place of a jump that exits to the host

VARIABLES
    code,     \* guest memory, seen from each entry
    cached,   \* the content compiled for each entry, or None
    landing   \* where the jump of a cached block to a target lands

vars == <<code, cached, landing>>

\* The targets that block e, compiled from content c, jumps to by link.
TargetsOf(e, c) == Decode[c].targets \ {e}

LinksTo(m, e, t) == m[e] # None /\ t \in TargetsOf(e, m[e])

\* Every jump lands where the map m says.
Landing(m) ==
    [e \in Eip |-> [t \in Eip |->
        IF ~LinksTo(m, e, t) THEN None
        ELSE IF m[t] = None THEN Stub ELSE m[t]]]

Init ==
    /\ code \in Images
    /\ cached = [e \in Eip |-> None]
    /\ landing = Landing(cached)

\* Any change of the map moves every landing place with it.
Recache(m) ==
    /\ cached' = m
    /\ landing' = Landing(m)
    /\ UNCHANGED code

Add(e) ==
    /\ cached[e] = None
    /\ Decode[code[e]].kind = "block"
    /\ Recache([cached EXCEPT ![e] = code[e]])

Drop(e) == Recache([cached EXCEPT ![e] = None])

DropAll == Recache([e \in Eip |-> None])

Write(image) ==
    /\ code' = image
    /\ UNCHANGED <<cached, landing>>

Next ==
    \/ \E e \in Eip : Add(e) \/ Drop(e)
    \/ \E image \in Images : Write(image)
    \/ DropAll

Spec == Init /\ [][Next]_vars
=============================================================================
