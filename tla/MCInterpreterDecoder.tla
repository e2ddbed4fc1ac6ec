------------------------- MODULE MCInterpreterDecoder -------------------------
(***************************************************************************)
(* The images the interpreter's decoder is checked on.  Every opcode of one *)
(* and two bytes, with every ModRM.reg; every addressing form behind a few  *)
(* opcodes; the same few with memory ending after each of their bytes; and  *)
(* as many prefixes as it takes to cross the fifteen-byte limit.            *)
(***************************************************************************)
EXTENDS InterpreterDecoder

Byte == 0 .. 255
SizePrefixes(n) == [i \in 1 .. n |-> OperandSizePrefix]
ModRm(mod, reg, rm) == 64 * mod + 8 * reg + rm
\* Bytes of displacements and immediates, more than any form takes.
Rest == <<17, 34, 51, 68, 85, 102, 119, 136>>

OneByte == {<<b>> : b \in Byte}
TwoByte == {<<\h0F, b>> : b \in Byte}
EveryForm ==
    {SizePrefixes(n) \o op \o <<m>> \o Rest :
        n \in {0, 1}, op \in OneByte \cup TwoByte,
        m \in {ModRm(mod, reg, 5) : mod \in {0, 3}, reg \in Reg3}}

\* Every ModRM.rm, and SIB bytes with and without a base and an index.
Addressing ==
    {<<ModRm(mod, reg, rm)>> : mod \in 0 .. 3, reg \in {0, 5}, rm \in Reg3 \ {4}}
    \cup {<<ModRm(mod, reg, 4), 64 * scale + 8 * index + base>> :
            mod \in 0 .. 3, reg \in {0, 5}, scale \in {0, 3}, index \in {0, 4, 7}, base \in {0, 4, 5}}
EveryAddress ==
    {SizePrefixes(n) \o op \o addressing \o Rest :
        n \in {0, 1}, op \in {<<\h8B>>, <<\h81>>, <<\h8D>>, <<\h0F, \hB6>>},
        addressing \in Addressing}

\* A form of each shape: no operand, immediates and displacements of each
\* width, ModRM with and without an immediate, a two-byte opcode, an unknown one.
Shapes == {<<\h90>>, <<\h40>>, <<\h6A>>, <<\hC2>>, <<\hB8>>, <<\hEB>>, <<\h0F, \h84>>, <<\h8B>>,
           <<\h81>>, <<\hF6>>, <<\hFF>>, <<\h8D>>, <<\h0F, \hB6>>, <<\h0F, \h0B>>, <<\hF4>>}
ShapeTails == {<<\hC1>>, <<\h05>>, <<\h44, \h25>>, <<\h84, \hC8>>, <<\h3D>>}
Shape(n) == {SizePrefixes(n) \o op \o tail \o Rest : op \in Shapes, tail \in ShapeTails}
Cut(images, lengths) ==
    UNION {{SubSeq(image, 1, length) : length \in lengths \cap 0 .. Len(image)} : image \in images}
Truncated == Cut(UNION {Shape(n) : n \in 0 .. 2}, 0 .. 12)
NearLimit == UNION {Shape(n) : n \in 5 .. 16}
TruncatedAtLimit == Cut(NearLimit, 13 .. 16)

AllImages == EveryForm \cup EveryAddress \cup Truncated \cup NearLimit \cup TruncatedAtLimit
=============================================================================
