---------------------------- MODULE GuestMachine ----------------------------
(***************************************************************************)
(* The x86 machine that a runtime emulates, whatever engine runs it: one   *)
(* instruction at a time, fetched from memory as it is now.  A run begins  *)
(* at an entry, retires instructions and ends with an outcome; an          *)
(* instruction that cannot be executed is not counted and leaves the       *)
(* instruction pointer on itself.                                          *)
(*                                                                         *)
(* Only control is kept of an instruction: the addresses that can follow   *)
(* it and what can go wrong with it.  Instructions have any length.        *)
(***************************************************************************)
EXTENDS Naturals

CONSTANTS
    Address,   \* the addresses of interest
    Image,     \* the guest memories that occur: [Address -> Instruction]
    Wrap       \* the instruction counter is kept modulo Wrap

\* op: "plain"; "memory", a read; "store"; "jump"; "branch"; "call", a jump
\* that stores; "dynamic", a jump to an address computed or read; "callDynamic",
\* such a jump that stores; "trap"; "unsupported"; "unreadable", past the end of
\* guest memory or too long to decode.
Ops == {"plain", "memory", "store", "jump", "branch", "call", "dynamic", "callDynamic",
        "trap", "unsupported", "unreadable"}

\* What goes on anywhere, what can change code, and what can fault.
Dynamic == {"dynamic", "callDynamic"}

Stores == {"store", "call", "callDynamic"}

Accesses == Stores \cup Dynamic \cup {"memory"}

Instruction == [op : Ops, next : Address, target : Address]

VARIABLES
    image,     \* guest memory
    eip,       \* address of the next instruction to retire
    count,     \* instructions retired, modulo Wrap
    outcome    \* "running", or how the last run ended ("none": no run yet)

vars == <<image, eip, count, outcome>>

Outcomes == {"none", "limit", "trap", "unsupported", "decodeFault", "memoryFault", "threw"}

\* Where control can go after instruction i.
After(i) ==
    CASE i.op \in {"jump", "call"} -> {i.target}
      [] i.op = "branch"    -> {i.target, i.next}
      [] i.op \in Dynamic   -> Address
      [] OTHER              -> {i.next}

Retires(i) == i.op \notin {"trap", "unsupported", "unreadable"}

\* Fault: a counter without a width.
IncrementForever(n) == n + 1

Increment(n) == (n + 1) % Wrap

Init ==
    /\ image \in Image
    /\ eip \in Address
    /\ count \in 0 .. Wrap - 1
    /\ outcome \in {"running"} \cup Outcomes

Begin ==
    /\ outcome # "running"
    /\ outcome' = "running"
    /\ eip' \in Address
    /\ UNCHANGED <<image, count>>

Retire ==
    LET i == image[eip] IN
    /\ outcome = "running"
    /\ Retires(i)
    /\ eip' \in After(i)
    /\ count' = Increment(count)
    /\ image' \in IF i.op \in Stores THEN Image ELSE {image}
    /\ UNCHANGED outcome

Trap ==
    /\ outcome = "running"
    /\ image[eip].op = "trap"
    /\ eip' = image[eip].next
    /\ count' = Increment(count)
    /\ outcome' = "trap"
    /\ UNCHANGED image

\* The run ends with the pointer on the instruction that was not executed.
Stop(why) ==
    /\ outcome = "running"
    /\ outcome' = why
    /\ UNCHANGED <<image, eip, count>>

Unsupported == image[eip].op = "unsupported" /\ Stop("unsupported")

DecodeFault == image[eip].op = "unreadable" /\ Stop("decodeFault")

MemoryFault == image[eip].op \in Accesses /\ Stop("memoryFault")

\* The embedder may always give up, between two instructions.
GiveUp == Stop("limit") \/ Stop("threw")

Patch ==
    /\ outcome # "running"
    /\ image' \in Image
    /\ UNCHANGED <<eip, count, outcome>>

Next ==
    \/ Begin \/ Retire \/ Trap \/ Unsupported \/ DecodeFault
    \/ MemoryFault \/ GiveUp \/ Patch

Spec == Init /\ [][Next]_vars
=============================================================================
