------------------------------ MODULE FlagModel ------------------------------
(***************************************************************************)
(* The arithmetic flags: the producers an instruction can name, the        *)
(* expressions they define, the conditions that read them, and the two     *)
(* forms of code generated from them - emitSetFlags, which writes flag     *)
(* bits into the compact word, and emitFlagProducerCondition, which skips  *)
(* the word and tests the operands.  A set of flags stands for a mask, a   *)
(* function from flags to truth values for the compact word.  Operand      *)
(* widths keep their names 8, 16 and 32 and are scaled to a few bits.      *)
(***************************************************************************)
EXTENDS Integers, FiniteSets, FiniteSetsExt

CONSTANTS ByteBits,   \* bits of a width-8 operand, also what PF looks at
          WordBits,   \* bits of a width-16 operand
          DwordBits   \* bits of a width-32 operand and of every value

ASSUME WidthsAssumption ==
  /\ {ByteBits, WordBits, DwordBits} \subseteq Nat
  /\ 1 < ByteBits /\ ByteBits < WordBits /\ WordBits < DwordBits

Flags == {"CF", "PF", "AF", "ZF", "SF", "OF"}
Widths == {8, 16, 32}

Bits(w) == CASE w = 8 -> ByteBits [] w = 16 -> WordBits [] w = 32 -> DwordBits
Values == 0 .. 2 ^ DwordBits - 1
Wrap(v) == v % 2 ^ DwordBits                     \* i32 arithmetic
Masked(w, v) == v % 2 ^ Bits(w)                  \* v & widthMask(w)
SignMask(w) == 2 ^ (Bits(w) - 1)

BitOf(v, i) == (v \div 2 ^ i) % 2
Bitwise2(op(_, _)) ==
  [a, b \in Values |->
     MapThenSumSet(LAMBDA i : 2 ^ i * op(BitOf(a, i), BitOf(b, i)), 0 .. DwordBits - 1)]
AndTable == Bitwise2(LAMBDA x, y : x * y)
XorTable == Bitwise2(LAMBDA x, y : (x + y) % 2)
OrTable  == Bitwise2(LAMBDA x, y : x + y - x * y)
And(a, b) == AndTable[a, b]
Xor(a, b) == XorTable[a, b]
Or(a, b)  == OrTable[a, b]

\* The number of set bits of the low byte is even.
Parity8(v) == Cardinality({i \in 0 .. ByteBits - 1 : BitOf(v, i) = 1}) % 2 = 0
\* AF is the carry out of the low half of a byte.
HalfBit == ByteBits \div 2
SignBit(w, v) == And(v, SignMask(w)) # 0

-----------------------------------------------------------------------------
(* FLAG_PRODUCERS: the flags each producer writes and leaves undefined.     *)

Producers == {"add", "sub", "logic", "inc", "dec"}
ProducerInputs == [add |-> {"left", "right", "result"}, sub |-> {"left", "right", "result"},
                   logic |-> {"result"}, inc |-> {"left", "result"}, dec |-> {"left", "result"}]
WrittenMask == [add |-> Flags, sub |-> Flags, logic |-> Flags,
                inc |-> Flags \ {"CF"}, dec |-> Flags \ {"CF"}]
UndefMask == [p \in Producers |-> IF p = "logic" THEN {"AF"} ELSE {}]

zspFlags(w, res) == [ZF |-> res = 0, SF |-> SignBit(w, res), PF |-> Parity8(res)]

addCarryFlags(w, l, r, res) ==
  [CF |-> res < l,
   AF |-> BitOf(Xor(Xor(l, r), res), HalfBit) = 1,
   OF |-> And(And(Xor(l, res), Xor(r, res)), SignMask(w)) # 0]

subCarryFlags(w, l, r, res) ==
  [CF |-> l < r,
   AF |-> BitOf(Xor(Xor(l, r), res), HalfBit) = 1,
   OF |-> And(And(Xor(l, r), Xor(l, res)), SignMask(w)) # 0]

\* One record of definitions spread over another.
Spread(defs, more) == [f \in Flags |-> IF f \in DOMAIN more THEN more[f] ELSE defs[f]]

\* Only the result is truncated; the operands are used as they come.
DefineFlags(p, w, in) ==
  LET res == Masked(w, in.result)
  IN  CASE p = "add"   -> Spread(zspFlags(w, res), addCarryFlags(w, in.left, in.right, res))
        [] p = "sub"   -> Spread(zspFlags(w, res), subCarryFlags(w, in.left, in.right, res))
        [] p = "logic" -> Spread(zspFlags(w, res), [CF |-> FALSE, OF |-> FALSE, AF |-> FALSE])
        [] p = "inc"   -> Spread(zspFlags(w, res), addCarryFlags(w, in.left, 1, res))
        [] p = "dec"   -> Spread(zspFlags(w, res), subCarryFlags(w, in.left, 1, res))

\* A producer descriptor: what one flags.set names.
Descriptor(p, w, in) == [producer |-> p, width |-> w, inputs |-> in]

\* Mutant: the flags that are not requested are cleared.
emitSetFlagsCleared(word, d, mask) ==
  LET defs == DefineFlags(d.producer, d.width, d.inputs)
  IN  [f \in Flags |-> f \in WrittenMask[d.producer] \cap mask /\ defs[f]]

\* The word with the requested flags of the producer, the others preserved.
emitSetFlags(word, d, mask) ==
  LET defs == DefineFlags(d.producer, d.width, d.inputs)
  IN  [f \in Flags |-> IF f \in WrittenMask[d.producer] \cap mask THEN defs[f] ELSE word[f]]

-----------------------------------------------------------------------------
(* CONDITIONS: what each condition code reads and how it combines it.       *)

ConditionCodes == {"O", "NO", "B", "AE", "E", "NE", "BE", "A",
                   "S", "NS", "P", "NP", "L", "GE", "LE", "G"}

ConditionReads(cc) ==
  CASE cc \in {"O", "NO"}  -> {"OF"}
    [] cc \in {"B", "AE"}  -> {"CF"}
    [] cc \in {"E", "NE"}  -> {"ZF"}
    [] cc \in {"BE", "A"}  -> {"CF", "ZF"}
    [] cc \in {"S", "NS"}  -> {"SF"}
    [] cc \in {"P", "NP"}  -> {"PF"}
    [] cc \in {"L", "GE"}  -> {"SF", "OF"}
    [] cc \in {"LE", "G"}  -> {"ZF", "SF", "OF"}

ConditionOf(cc, word) ==
  CASE cc = "O"  -> word["OF"]
    [] cc = "NO" -> ~word["OF"]
    [] cc = "B"  -> word["CF"]
    [] cc = "AE" -> ~word["CF"]
    [] cc = "E"  -> word["ZF"]
    [] cc = "NE" -> ~word["ZF"]
    [] cc = "BE" -> word["CF"] \/ word["ZF"]
    [] cc = "A"  -> ~word["CF"] /\ ~word["ZF"]
    [] cc = "S"  -> word["SF"]
    [] cc = "NS" -> ~word["SF"]
    [] cc = "P"  -> word["PF"]
    [] cc = "NP" -> ~word["PF"]
    [] cc = "L"  -> word["SF"] # word["OF"]
    [] cc = "GE" -> word["SF"] = word["OF"]
    [] cc = "LE" -> word["ZF"] \/ word["SF"] # word["OF"]
    [] cc = "G"  -> ~word["ZF"] /\ word["SF"] = word["OF"]

-----------------------------------------------------------------------------
(* The direct form: a condition tested on the producer's own operands.      *)

LogicKind == [O |-> "constFalse", B |-> "constFalse", NO |-> "constTrue", AE |-> "constTrue",
              E |-> "zero", BE |-> "zero", NE |-> "nonZero", A |-> "nonZero",
              S |-> "sign", L |-> "sign", NS |-> "notSign", GE |-> "notSign",
              P |-> "parity8", NP |-> "notParity8",
              LE |-> "zeroOrSign", G |-> "nonZeroAndNotSign"]
CompareKind == [E |-> "eq", NE |-> "ne", B |-> "uLt", AE |-> "uGe",
                L |-> "sLt", GE |-> "sGe", LE |-> "sLe", G |-> "sGt"]
ResultKind == [E |-> "zero", NE |-> "nonZero", S |-> "sign", NS |-> "notSign",
               P |-> "parity8", NP |-> "notParity8"]

\* "none" where the code answers undefined; inputs is the set of known inputs.
flagProducerConditionKind(p, cc, inputs) ==
  CASE p = "logic" -> LogicKind[cc]
    [] p = "sub" /\ inputs # {"result"} /\ cc \in DOMAIN CompareKind -> CompareKind[cc]
    [] OTHER -> IF cc \in DOMAIN ResultKind THEN ResultKind[cc] ELSE "none"

CompareKinds == {"eq", "ne", "uLt", "uGe", "sLt", "sGe", "sLe", "sGt"}

flagProducerConditionInputNames(kind) ==
  CASE kind \in CompareKinds -> {"left", "right"}
    [] kind \in {"constTrue", "constFalse"} -> {}
    [] OTHER -> {"result"}

\* Signed comparisons flip the sign bit and compare unsigned.
emitFlagProducerCondition(kind, w, in) ==
  LET left   == Masked(w, in.left)
      right  == Masked(w, in.right)
      res    == Masked(w, in.result)
      sleft  == Xor(left, SignMask(w))
      sright == Xor(right, SignMask(w))
  IN  CASE kind = "eq"  -> left = right
        [] kind = "ne"  -> left # right
        [] kind = "uLt" -> left < right
        [] kind = "uGe" -> ~(left < right)
        [] kind = "sLt" -> sleft < sright
        [] kind = "sGe" -> ~(sleft < sright)
        [] kind = "sLe" -> ~(sleft > sright)
        [] kind = "sGt" -> sleft > sright
        [] kind = "zero"       -> res = 0
        [] kind = "nonZero"    -> res # 0
        [] kind = "sign"       -> SignBit(w, res)
        [] kind = "notSign"    -> ~SignBit(w, res)
        [] kind = "parity8"    -> Parity8(res)
        [] kind = "notParity8" -> ~Parity8(res)
        [] kind = "constTrue"  -> TRUE
        [] kind = "constFalse" -> FALSE
        [] kind = "zeroOrSign" -> res = 0 \/ SignBit(w, res)
        [] kind = "nonZeroAndNotSign" -> res # 0 /\ ~SignBit(w, res)
=============================================================================
