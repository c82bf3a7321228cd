--------------------------------- MODULE MBA ---------------------------------
(***************************************************************************)
(* The mba-add and mba-sub passes (lib/MBAAdd.cpp, lib/MBASub.cpp): they   *)
(* walk a function with an iterator and replace each 8-bit addition, or    *)
(* each integer subtraction, by a mixed Boolean-arithmetic expression with *)
(* the same value, rewriting the block under the iterator.                 *)
(*                                                                         *)
(* A function is a sequence of blocks, a block a sequence of instructions  *)
(* [def, op, width, args]; width is 0 when the type is not an integer (a   *)
(* vector, a float).  A value is a pair: <<"const", n>> for a constant,    *)
(* <<name, 0>> for a value of the input, <<name, k>> for the k-th          *)
(* instruction inserted in front of the one that defines <<name, 0>>.      *)
(***************************************************************************)
EXTENDS Integers, SequencesExt, TLC

CONSTANTS
  Functions,      \* the functions the passes may be run on
  Inputs          \* the values of the inputs that results are compared on

VARIABLES
  pass,           \* "mba-add" or "mba-sub"
  code0,          \* the function as the pass received it (history)
  code,           \* the function now
  bb,             \* the block that is walked
  inst,           \* the position of Inst in it
  changed         \* Changed

vars == <<pass, code0, code, bb, inst, changed>>

Const(n) == <<"const", n>>
IsConst(v) == v[1] = "const"

\* Values, and the instructions the passes may meet.
Value == ({"const"} \cup STRING) \X Nat
SourceInstr == [def : STRING \X {0}, op : {"add", "sub", "mul", "and", "xor"},
                width : 0 .. 16, args : Value \X Value]

\* n is an integer of width w; no width is asked of what is not an integer.
Fits(n, w) == w > 0 => n \in 0 .. 2 ^ w - 1

\* Instruction k of block b of c may read v as an integer of width w: v is a
\* constant, an input, or defined before.
Readable(c, b, k, v, w) ==
  \/ IsConst(v) /\ Fits(v[2], w)
  \/ ~IsConst(v) /\ \A in \in Inputs : v \in DOMAIN in /\ Fits(in[v], w)
  \/ ~IsConst(v) /\ \E a \in 1 .. b : \E j \in DOMAIN c[a] :
       /\ a < b \/ j < k
       /\ c[a][j].def = v
       /\ w > 0 => c[a][j].width = w

\* No two instructions of c define the same value.
DefinedOnce(c) ==
  \A a, b \in DOMAIN c : \A j \in DOMAIN c[a], k \in DOMAIN c[b] :
    c[a][j].def = c[b][k].def => a = b /\ j = k

\* Functions are in static single assignment form, and well typed.
ASSUME FunctionsAssumption ==
  \A c \in Functions :
    /\ c \in Seq(Seq(SourceInstr)) /\ c # <<>>
    /\ DefinedOnce(c)
    /\ \A b \in DOMAIN c : \A k \in DOMAIN c[b] :
         LET i == c[b][k] IN
         /\ ~IsConst(i.def)
         /\ \A in \in Inputs : \A v \in DOMAIN in : v[1] # i.def[1]
         /\ Readable(c, b, k, i.args[1], i.width)
         /\ Readable(c, b, k, i.args[2], i.width)

ASSUME InputsAssumption ==
  \A in \in Inputs : \A v \in DOMAIN in : ~IsConst(v) /\ in[v] \in Nat

\* Sequence s with its element at k replaced by the elements of new.
Splice(s, k, new) == SubSeq(s, 1, k - 1) \o new \o SubSeq(s, k + 1, Len(s))
-----------------------------------------------------------------------------
(* The arithmetic of w-bit integers, as LLVM defines it.                   *)

\* Bitwise operators on 8 bits, doubling the width three times, and on 16.
And1(a, b) == a * b
Xor1(a, b) == (a + b) % 2
And2(a, b) == And1(a % 2, b % 2) + 2 * And1(a \div 2, b \div 2)
Xor2(a, b) == Xor1(a % 2, b % 2) + 2 * Xor1(a \div 2, b \div 2)
And4(a, b) == And2(a % 4, b % 4) + 4 * And2(a \div 4, b \div 4)
Xor4(a, b) == Xor2(a % 4, b % 4) + 4 * Xor2(a \div 4, b \div 4)
And8(a, b) == And4(a % 16, b % 16) + 16 * And4(a \div 16, b \div 16)
Xor8(a, b) == Xor4(a % 16, b % 16) + 16 * Xor4(a \div 16, b \div 16)
And16(a, b) == And8(a % 256, b % 256) + 256 * And8(a \div 256, b \div 256)
Xor16(a, b) == Xor8(a % 256, b % 256) + 256 * Xor8(a \div 256, b \div 256)

\* Integers modulo m = 2^w, and the value of op on the operands a, w <= 16.
Plus(m, x, y) == (x + y) % m
Minus(m, x, y) == (x + m - y) % m
Times(m, x, y) == (x * y) % m
Complement(m, x) == m - 1 - x

Compute(op, m, a) ==
  CASE op = "add" -> Plus(m, a[1], a[2])
    [] op = "sub" -> Minus(m, a[1], a[2])
    [] op = "mul" -> Times(m, a[1], a[2])
    [] op = "and" -> And16(a[1], a[2]) % m
    [] op = "xor" -> Xor16(a[1], a[2]) % m
    [] op = "not" -> Complement(m, a[1])
-----------------------------------------------------------------------------
(* The replacements.                                                       *)

\* The k-th instruction inserted in front of i, and the value it defines.
Temp(i, k) == <<i.def[1], k>>
Inserted(i, k, op, args) == [def |-> Temp(i, k), op |-> op, width |-> i.width, args |-> args]

\* The instruction that takes the place, and the uses, of i.
NewInst(i, args) == [def |-> i.def, op |-> "add", width |-> i.width, args |-> args]

\* e5 of two constants, which IRBuilder folds step by step.
Folded(m, a, b) ==
  LET e2 == Plus(m, Xor16(a, b), Times(m, 2, And16(a, b)))
  IN  Times(m, 151, Plus(m, 23, Times(m, 39, e2)))

\* (((a ^ b) + 2 * (a & b)) * 39 + 23) * 151 + 111.  C++ does not say which
\* operand of the inner sum is built first.
AddReplacement(i, xorFirst) ==
  LET x == IF xorFirst THEN 1 ELSE 3    \* e0, the xor
      n == IF xorFirst THEN 2 ELSE 1    \* the and; e1 doubles it
      e0 == Inserted(i, x, "xor", i.args)
      e1 == <<Inserted(i, n, "and", i.args), Inserted(i, n + 1, "mul", <<Const(2), Temp(i, n)>>)>>
      sum == IF xorFirst THEN <<e0, e1[1], e1[2]>> ELSE <<e1[1], e1[2], e0>>
  IN  IF \A k \in DOMAIN i.args : IsConst(i.args[k])
      THEN <<NewInst(i, <<Const(111), Const(Folded(2 ^ i.width, i.args[1][2], i.args[2][2]))>>)>>
      ELSE <<sum[1], sum[2], sum[3],
             Inserted(i, 4, "add", <<Temp(i, x), Temp(i, n + 1)>>),
             Inserted(i, 5, "mul", <<Const(39), Temp(i, 4)>>),
             Inserted(i, 6, "add", <<Const(23), Temp(i, 5)>>),
             Inserted(i, 7, "mul", <<Const(151), Temp(i, 6)>>),
             NewInst(i, <<Const(111), Temp(i, 7)>>)>>

\* (a + ~b) + 1, where ~b, and with it a + ~b, folds when it is constant.
SubReplacement(i) ==
  LET a == i.args[1]
      b == i.args[2]
      m == 2 ^ i.width
      one == Const(1)
      notB == Const(Complement(m, b[2]))
  IN  IF ~IsConst(b)
      THEN <<Inserted(i, 1, "not", <<b>>),
             Inserted(i, 2, "add", <<a, Temp(i, 1)>>),
             NewInst(i, <<Temp(i, 2), one>>)>>
      ELSE IF ~IsConst(a)
      THEN <<Inserted(i, 1, "add", <<a, notB>>), NewInst(i, <<Temp(i, 1), one>>)>>
      ELSE <<NewInst(i, <<Const(Plus(m, a[2], notB[2])), one>>)>>

Replacements(p, i) ==
  IF p = "mba-add" THEN {AddReplacement(i, xorFirst) : xorFirst \in BOOLEAN}
  ELSE {SubReplacement(i)}

\* Mutant: an addition of any width is replaced.
IsTargetOfAnyWidth(p, i) ==
  IF p = "mba-add" THEN i.op = "add" /\ i.width > 0
  ELSE i.op = "sub" /\ i.width > 0

\* The instructions the pass p replaces.
IsTarget(p, i) ==
  IF p = "mba-add" THEN i.op = "add" /\ i.width = 8
  ELSE i.op = "sub" /\ i.width > 0
-----------------------------------------------------------------------------
(* The passes.                                                             *)

Init ==
  /\ pass \in {"mba-add", "mba-sub"}
  /\ code0 \in Functions
  /\ code = code0
  /\ bb = 1 /\ inst = 1
  /\ changed = FALSE

InBlock == bb <= Len(code) /\ inst <= Len(code[bb])

\* Mutant: continue goes around without ++Inst.
SkipInPlace ==
  /\ InBlock
  /\ ~IsTarget(pass, code[bb][inst])
  /\ UNCHANGED vars

\* Inst is left where it is.
Skip ==
  /\ InBlock
  /\ ~IsTarget(pass, code[bb][inst])
  /\ inst' = inst + 1
  /\ UNCHANGED <<pass, code0, code, bb, changed>>

\* Mutant: the iterator is left on the first instruction inserted.
SubstituteBehindIterator ==
  /\ InBlock
  /\ IsTarget(pass, code[bb][inst])
  /\ \E new \in Replacements(pass, code[bb][inst]) :
       code' = [code EXCEPT ![bb] = Splice(@, inst, new)]
  /\ changed' = TRUE
  /\ UNCHANGED <<pass, code0, bb, inst>>

\* Mutant: the iterator is advanced past the new instruction twice.
SubstituteAndStep ==
  /\ InBlock
  /\ IsTarget(pass, code[bb][inst])
  /\ \E new \in Replacements(pass, code[bb][inst]) :
       /\ code' = [code EXCEPT ![bb] = Splice(@, inst, new)]
       /\ inst' = inst + Len(new) + 1
  /\ changed' = TRUE
  /\ UNCHANGED <<pass, code0, bb>>

\* Inst is replaced; the iterator moves to the new instruction, behind all
\* that was inserted, and the loop goes on after it.
Substitute ==
  /\ InBlock
  /\ IsTarget(pass, code[bb][inst])
  /\ \E new \in Replacements(pass, code[bb][inst]) :
       /\ code' = [code EXCEPT ![bb] = Splice(@, inst, new)]
       /\ inst' = inst + Len(new)
  /\ changed' = TRUE
  /\ UNCHANGED <<pass, code0, bb>>

\* Mutant: Changed = runOnBasicBlock(BB) for Changed |= runOnBasicBlock(BB).
NextBlockForgets ==
  /\ bb <= Len(code)
  /\ inst > Len(code[bb])
  /\ bb' = bb + 1
  /\ inst' = 1
  /\ changed' = FALSE
  /\ UNCHANGED <<pass, code0, code>>

NextBlock ==
  /\ bb <= Len(code)
  /\ inst > Len(code[bb])
  /\ bb' = bb + 1
  /\ inst' = 1
  /\ UNCHANGED <<pass, code0, code, changed>>

Done == bb > Len(code)

Returned == Done /\ UNCHANGED vars

Next == Skip \/ Substitute \/ NextBlock \/ Returned

Spec == Init /\ [][Next]_vars /\ WF_vars(Skip \/ Substitute \/ NextBlock)
-----------------------------------------------------------------------------
(* Properties.                                                             *)

\* The iterator is on an instruction or just behind the last one, and a value
\* has one definition: the loop of runOnBasicBlock never steps over the end.
TypeOK ==
  /\ bb \in 1 .. Len(code) + 1
  /\ bb <= Len(code) => inst \in 1 .. Len(code[bb]) + 1
  /\ DefinedOnce(code)

\* What an operand and an instruction evaluate to, env being the values known;
\* a value that is not an integer is not computed.
Read(env, v) == IF IsConst(v) THEN v[2] ELSE env[v]

Result(env, i) ==
  IF i.width = 0 THEN 0
  ELSE Compute(i.op, 2 ^ i.width, [k \in DOMAIN i.args |-> Read(env, i.args[k])])

Assign(env, i) ==
  [v \in DOMAIN env \cup {i.def} |-> IF v = i.def THEN Result(env, i) ELSE env[v]]

\* The values known after the instructions of a block, and after those of all
\* blocks, one after the other.
AfterBlock(s, env) ==
  LET after[n \in 0 .. Len(s)] == IF n = 0 THEN env ELSE Assign(after[n - 1], s[n])
  IN  after[Len(s)]

Values(c, in) ==
  LET after[b \in 0 .. Len(c)] == IF b = 0 THEN in ELSE AfterBlock(c[b], after[b - 1])
  IN  after[Len(c)]

\* However far the pass is, each value the function defined still has the
\* value it had, on every input: the replacements are identities of the width
\* they are used for, and no operand is read before it is defined.
SameValues ==
  \A in \in Inputs :
    LET before == Values(code0, in)
        now    == Values(code, in)
    IN  \A v \in DOMAIN before : now[v] = before[v]

\* What has become of instruction i of block b is new, in one piece.
Became(b, i, new) ==
  \E n \in 0 .. Len(code[b]) :
    /\ {k \in DOMAIN code[b] : code[b][k].def[1] = i.def[1]} = n + 1 .. n + Len(new)
    /\ \A k \in DOMAIN new : code[b][n + k] = new[k]

\* The pass never works on its own output: what stands for an instruction is
\* the instruction or one replacement of it, which the pass to add would match
\* again; and when the pass is done no instruction it looks for was missed.
EachTargetOnce ==
  \A b \in DOMAIN code0 : \A k \in DOMAIN code0[b] :
    LET i == code0[b][k] IN
    \/ Became(b, i, <<i>>) /\ (bb > b => ~IsTarget(pass, i))
    \/ IsTarget(pass, i) /\ \E new \in Replacements(pass, i) : Became(b, i, new)

\* PreservedAnalyses::all() is returned only for a function that was left as
\* it was, whichever of its blocks had something to replace.
PreservedMeansUntouched == Done /\ ~changed => code = code0

\* The loop ends although it adds instructions to the block it walks.
Termination == <>Done
=============================================================================
