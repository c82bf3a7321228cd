--------------------------------- MODULE FCmp ---------------------------------
(***************************************************************************)
(* The find-fcmp-eq analysis and the conversion of one comparison by       *)
(* convert-fcmp-eq (lib/FindFCmpEq.cpp, lib/ConvertFCmpEq.cpp), with the   *)
(* floating-point arithmetic the converted code does.                      *)
(*                                                                         *)
(* A double is its bits: a sign bit over a magnitude, whose two largest    *)
(* values are infinity and NaN and whose others are that many units.  The  *)
(* spacing is that of the doubles below 1: epsilon is several units, so    *)
(* there are distinct doubles closer to one another than epsilon.          *)
(***************************************************************************)
EXTENDS ModuleIR, Integers

CONSTANTS
  SignBit,   \* the sign bit: twice the number of magnitudes is 2^64
  Epsilon    \* the bits of the threshold

ASSUME DoubleAssumption ==
  /\ SignBit \in Nat \ {0, 1, 2}
  /\ Epsilon \in 1 .. SignBit - 3

Doubles == 0 .. 2 * SignBit - 1
Infinity == SignBit - 2
NaN == SignBit - 1

Magnitude(d) == d % SignBit
IsNaN(d) == Magnitude(d) = NaN
IsInfinite(d) == Magnitude(d) = Infinity
Negated(d) == (d + SignBit) % (2 * SignBit)
Signed(d) == IF d >= SignBit THEN -Magnitude(d) ELSE d

\* The double nearest to n units.
Rounded(n) ==
  LET overflow(m) == IF m > Infinity THEN Infinity ELSE m
  IN  IF n < 0 THEN Negated(overflow(-n)) ELSE overflow(n)

\* IEEE 754 subtraction, a difference of zero being negative only in -0 - 0.
FSub(a, b) ==
  IF IsNaN(a) \/ IsNaN(b) \/ (IsInfinite(a) /\ a = b) THEN NaN
  ELSE IF IsInfinite(a) THEN a
  ELSE IF IsInfinite(b) THEN Negated(b)
  ELSE IF a = SignBit /\ b = 0 THEN SignBit
  ELSE Rounded(Signed(a) - Signed(b))

\* How two doubles compare: unordered, less, greater or equal.
Relation(a, b) ==
  IF IsNaN(a) \/ IsNaN(b) THEN "U"
  ELSE IF Signed(a) < Signed(b) THEN "L"
  ELSE IF Signed(a) > Signed(b) THEN "G" ELSE "E"

\* A predicate is the set of the relations it is true of, which is how LLVM
\* encodes it.
OEQ == {"E"}
UEQ == {"U", "E"}
ONE == {"L", "G"}
UNE == {"U", "L", "G"}
OLT == {"L"}
ULT == {"U", "L"}
OGE == {"G", "E"}
UGE == {"U", "G", "E"}
-----------------------------------------------------------------------------
Equalities == {OEQ, UEQ, ONE, UNE}

\* FCmpInst::isEquality
IsEquality(i) == i.op = "fcmp" /\ i.pred \in Equalities

\* The equality comparisons of a function, in the order of its instructions.
FindFCmpEq(body) ==
  LET is == Instructions(body)
  IN  FlattenSeq([k \in DOMAIN is |-> IF IsEquality(is[k]) THEN <<is[k].def>> ELSE <<>>])

\* Mutant: "not equal" becomes "greater" and loses a difference of epsilon.
StrictPredicate ==
  [p \in Equalities |->
     IF p = OEQ THEN OLT ELSE IF p = UEQ THEN ULT ELSE IF p = ONE THEN {"G"} ELSE {"U", "G"}]

\* The predicate for the difference and epsilon in place of an equality.
CmpPred ==
  [p \in Equalities |->
     IF p = OEQ THEN OLT ELSE IF p = UEQ THEN ULT ELSE IF p = ONE THEN OGE ELSE UGE]

SignMask == Constant("signmask", "i64")
EpsilonValue == Constant("epsilon", "double")

\* A value made for the comparison that defines v.
MadeFor(v, part, ty) == Value(v.name \o <<part>>, ty)

\* Mutant: the absolute value is computed behind the comparison that reads it.
ConvertedTooLate(i) ==
  LET v == i.def
      diff == MadeFor(v, "diff", i.args[1].ty)
      bits == MadeFor(v, "bits", "i64")
      abs == MadeFor(v, "abs", "i64")
      dbl == MadeFor(v, "dbl", "double")
  IN  << Plain("fsub", diff, i.args, "convert-fcmp-eq"),
         [i EXCEPT !.pred = CmpPred[@], !.args = <<dbl, EpsilonValue>>],
         Plain("bitcast", bits, <<diff>>, "convert-fcmp-eq"),
         Plain("and", abs, <<bits, SignMask>>, "convert-fcmp-eq"),
         Plain("bitcast", dbl, <<abs>>, "convert-fcmp-eq") >>

\* Mutant: a comparison is made anew, and the uses of the old one are lost.
ConvertedAnew(i) ==
  LET v == i.def
      diff == MadeFor(v, "diff", i.args[1].ty)
      bits == MadeFor(v, "bits", "i64")
      abs == MadeFor(v, "abs", "i64")
      dbl == MadeFor(v, "dbl", "double")
  IN  << Plain("fsub", diff, i.args, "convert-fcmp-eq"),
         Plain("bitcast", bits, <<diff>>, "convert-fcmp-eq"),
         Plain("and", abs, <<bits, SignMask>>, "convert-fcmp-eq"),
         Plain("bitcast", dbl, <<abs>>, "convert-fcmp-eq"),
         Instr("fcmp", MadeFor(v, "cmp", "i1"), <<dbl, EpsilonValue>>, Indirect, {}, CmpPred[i.pred],
               "convert-fcmp-eq") >>

\* What stands in place of the equality comparison i once it is converted:
\* four new instructions in front of the comparison itself, which has another
\* predicate and other operands.
Converted(i) ==
  LET v == i.def
      diff == MadeFor(v, "diff", i.args[1].ty)
      bits == MadeFor(v, "bits", "i64")
      abs == MadeFor(v, "abs", "i64")
      dbl == MadeFor(v, "dbl", "double")
  IN  << Plain("fsub", diff, i.args, "convert-fcmp-eq"),
         Plain("bitcast", bits, <<diff>>, "convert-fcmp-eq"),
         Plain("and", abs, <<bits, SignMask>>, "convert-fcmp-eq"),
         Plain("bitcast", dbl, <<abs>>, "convert-fcmp-eq"),
         [i EXCEPT !.pred = CmpPred[@], !.args = <<dbl, EpsilonValue>>] >>

\* The listed comparison v of a body, through the pointer the list holds.
Pointee(body, v) == LET is == Instructions(body) IN is[SelectInSeq(is, LAMBDA i : i.def = v)]

\* convertFCmpEqInstruction on comparison v.
ConvertFCmpEqInstruction(body, v) ==
  IF IsEquality(Pointee(body, v)) THEN Replacing(body, v, Converted(Pointee(body, v))) ELSE body
-----------------------------------------------------------------------------
(* The meaning of straight-line code over doubles.                         *)

\* The value of operand v in an environment.
ReadDouble(env, v) == IF v = SignMask THEN SignBit - 1
                ELSE IF v = EpsilonValue THEN Epsilon ELSE env[v]

OnDoubles(i) == i.op \in {"fsub", "bitcast", "and", "fcmp"}

\* Clearing the sign bit is the only mask the converted code uses.
Execute(env, i) ==
  CASE i.op = "fsub"    -> (i.def :> FSub(ReadDouble(env, i.args[1]), ReadDouble(env, i.args[2]))) @@ env
    [] i.op = "bitcast" -> (i.def :> ReadDouble(env, i.args[1])) @@ env
    [] i.op = "and"     -> (i.def :> ReadDouble(env, i.args[1]) % (ReadDouble(env, i.args[2]) + 1)) @@ env
    [] i.op = "fcmp"    -> (i.def :> (Relation(ReadDouble(env, i.args[1]), ReadDouble(env, i.args[2])) \in i.pred))
                           @@ env
    [] OTHER            -> env

Evaluate(block, env) == FoldLeft(Execute, env, block)

\* The pairs of doubles that are compared differently when converted: two
\* equal infinities, whose difference is NaN, are found to be both less than
\* epsilon apart and not, as NaN is; and distinct finite doubles closer than
\* epsilon are taken for equal.
Confused(pred, a, b) ==
  \/ IsInfinite(a) /\ a = b /\ pred \in {OEQ, UNE}
  \/ /\ ~IsNaN(a) /\ ~IsInfinite(a) /\ ~IsNaN(b) /\ ~IsInfinite(b)
     /\ Signed(a) # Signed(b)
     /\ Magnitude(FSub(a, b)) < Epsilon
=============================================================================
